---- MODULE Spec2Model ----
(***************************************************************************)
(* A model of the Socratic question engine (engine/socratic_engine.py,     *)
(* engine/feature_extractor.py, engine/rule_evaluator.py,                  *)
(* engine/question_generator.py).                                          *)
(*                                                                         *)
(* Representation:                                                         *)
(*  - a Python dict with a fixed key set is a record; a missing key or a   *)
(*    null value of a text field is the string None;                       *)
(*  - Optional[int] features use the integer NoneInt for None;             *)
(*  - a float confidence c is the integer c * ConfScale (all confidences   *)
(*    the code can produce for rules of at most six constraints are whole  *)
(*    numbers of units);                                                   *)
(*  - wall-clock timestamps (processed_at, timestamp, createdAt) are left  *)
(*    out: no decision of the engine reads them;                           *)
(*  - a function that can raise returns a record with a field "raised".    *)
(***************************************************************************)
EXTENDS Integers, Sequences, FiniteSets, TLC

VARIABLES
    config,         \* the configuration the engine was constructed with (read-only)
    llm_client,     \* QuestionGenerator.llm_client is not None
    user_sessions,  \* SocraticEngine.user_sessions: user id -> session
    stats,          \* SocraticEngine.stats
    call,           \* the operation invoked last, with its arguments
    result,         \* what that operation returned to its caller
    server          \* server.py: the on_interaction handlers in flight on the event loop

vars == <<config, llm_client, user_sessions, stats, call, result, server>>

----------------------------------------------------------------------------
(* Values *)

None == "None"

NoneInt == -1

ConfScale == 6000

\* n/100 as a confidence in units of 1/ConfScale
Hundredths(n) == n * (ConfScale \div 100)

Truthy(v) == v # None /\ v # ""

\* s[-n:]
LastN(s, n) == IF Len(s) >= n THEN SubSeq(s, Len(s) - n + 1, Len(s)) ELSE s

Range(s) == {s[i] : i \in DOMAIN s}

\* an empty dict
EmptyDict == [k \in {} |-> 0]

----------------------------------------------------------------------------
(* Interaction events and texts *)

\* An event as the transport layer delivers it; a field the payload lacks is None.
Event(it, itCamel, ty, x, y, insight) ==
    [interaction_type |-> it, interactionType |-> itCamel, type |-> ty,
     x_attribute |-> x, y_attribute |-> y, save_user_insight |-> insight]

ShortText == "turnout is higher"
ShortNumText == "42 percent voted"
LongText == "long insight text of ninety characters"

\* len(text)
TextLen(t) ==
    CASE t = None -> 0
      [] t = "" -> 0
      [] t = ShortText -> 17
      [] t = ShortNumText -> 16
      [] t = LongText -> 90
      [] OTHER -> 8

\* re.search(r'\d', text)
TextHasDigit(t) == t = ShortNumText

\* needle in hay, for the type tags the model uses
SubstringOf(needle, hay) ==
    \/ needle = hay
    \/ needle = ""
    \/ <<needle, hay>> \in {<<"chart_type_changed", "chart_type_changed_bar">>,
                            <<"filter", "filter_applied">>}

EvChart == Event(None, "chart_type_changed", None, "party", "income", None)
EvHover == Event("mouseover_item", None, None, "party", "income", None)
EvAxis == Event(None, "axis_attribute_changed", None, "age", "income", None)
EvInsightShort == Event(None, "save_user_insight", None, None, None, ShortText)
EvInsightLong == Event(None, "save_user_insight", None, None, None, LongText)

\* save_user_response's response_entry
ResponseEntry == Event("question_response", None, None, None, None, None)

Context(x, y, chart) == [x_attribute |-> x, y_attribute |-> y, chart_type |-> chart]

\* the Python value None passed where a dict is expected
NoneDict == [py_none |-> TRUE]

CtxParty == Context("party", "income", "scatterplot")

----------------------------------------------------------------------------
(* FeatureExtractor *)

\* the resolution before the camelCase alias was added:
\* h.get('interaction_type') or h.get('type') or ''
interaction_type_without_camel_case(h) ==
    IF Truthy(h.interaction_type) THEN h.interaction_type
    ELSE IF Truthy(h.type) THEN h.type
    ELSE ""

\* h.get('interaction_type') or h.get('interactionType') or h.get('type') or ''
interaction_type_of(h) ==
    IF Truthy(h.interaction_type) THEN h.interaction_type
    ELSE IF Truthy(h.interactionType) THEN h.interactionType
    ELSE IF Truthy(h.type) THEN h.type
    ELSE ""

_count_by_type(history, type_str) ==
    Cardinality({i \in DOMAIN history : SubstringOf(type_str, interaction_type_of(history[i]))})

\* the loop of _count_consecutive_same from position i down to 1
RECURSIVE consecutive_same_from(_, _, _, _, _)
consecutive_same_from(history, field, i, current_value, count) ==
    IF i = 0 THEN count
    ELSE LET value == history[i][field] IN
         IF value = None
         THEN consecutive_same_from(history, field, i - 1, current_value, count)
         ELSE IF current_value = None
         THEN consecutive_same_from(history, field, i - 1, value, 1)
         ELSE IF value = current_value
         THEN consecutive_same_from(history, field, i - 1, current_value, count + 1)
         ELSE count

\* the scan with an event lacking the field ending the run
_count_consecutive_same_absent_breaks(history, field) ==
    LET run == {i \in DOMAIN history :
                   \A j \in i..Len(history) :
                       /\ history[j][field] # None
                       /\ history[j][field] = history[Len(history)][field]}
    IN  Cardinality(run)

_count_consecutive_same(history, field) ==
    IF history = <<>> THEN 0
    ELSE consecutive_same_from(history, field, Len(history), None, 0)

\* the 0-based index of the last event of the type, or -1
_find_last_index(history, type_str) ==
    LET hits == {i \in DOMAIN history : SubstringOf(type_str, interaction_type_of(history[i]))}
    IN  IF hits = {} THEN -1 ELSE (CHOOSE i \in hits : \A j \in hits : j <= i) - 1

_steps_since(history, type_str) ==
    LET i == _find_last_index(history, type_str)
    IN  IF i = -1 THEN NoneInt ELSE Len(history) - 1 - i

_steps_without_type(history, type_str) ==
    LET i == _find_last_index(history, type_str)
    IN  IF i = -1 THEN Len(history) ELSE Len(history) - 1 - i

_steps_since_insight(history, type_str) ==
    LET last_insight_index == _find_last_index(history, "save_user_insight")
    IN  IF last_insight_index = -1 THEN 0
        ELSE _count_by_type(SubSeq(history, last_insight_index + 2, Len(history)), type_str)

_get_last_insight(history) ==
    LET hits == {i \in DOMAIN history : Truthy(history[i].save_user_insight)}
    IN  IF hits = {} THEN None
        ELSE history[CHOOSE i \in hits : \A j \in hits : j <= i].save_user_insight

_has_numbers(text) == IF ~Truthy(text) THEN FALSE ELSE TextHasDigit(text)

_detect_rapid_changes(window, type_str, threshold) ==
    _count_by_type(window, type_str) >= threshold

_detect_no_sustained_focus(history) ==
    IF Len(history) < 20 THEN FALSE
    ELSE LET recent_20 == LastN(history, 20)
         IN  _count_by_type(recent_20, "chart_type_changed")
               + _count_by_type(recent_20, "axis_attribute_changed") > 10

\* h.get('interaction_type') or h.get('interactionType') or h.get('type'), kept when truthy
_check_diverse_interactions(history) ==
    Cardinality({interaction_type_of(history[i]) : i \in DOMAIN history} \ {""}) >= 5

\* The string-hash seeds of two interpreter processes (PYTHONHASHSEED is drawn anew
\* at every start unless the environment fixes it), and the order in which a set of
\* the attribute names is iterated under each: CPython 3 under PYTHONHASHSEED=1 and
\* PYTHONHASHSEED=2.
HashSeeds == {1, 2}

SetOrder(hash_seed) ==
    IF hash_seed = 1 THEN <<"party", "age", "income">> ELSE <<"age", "income", "party">>

\* list(attrs) of the set of truthy x_attribute and y_attribute values
_get_unique_attributes(history, hash_seed) ==
    LET attrs == {history[i].x_attribute : i \in DOMAIN history}
                   \cup {history[i].y_attribute : i \in DOMAIN history}
    IN  SelectSeq(SetOrder(hash_seed), LAMBDA a : a \in attrs)

\* h.get('interaction_type', h.get('type', ''))
recent_action_of(h) ==
    IF h.interaction_type # None THEN h.interaction_type
    ELSE IF h.type # None THEN h.type ELSE ""

\* the count taken as the index of the last event
interaction_count_as_last_index(history) == Len(history) - 1

\* 'interaction_count': len(history)
interaction_count(history) == Len(history)

\* FeatureExtractor.extract; current_context = None makes .get raise AttributeError
extract(history, current_context) ==
    IF current_context = NoneDict THEN [raised |-> TRUE]
    ELSE
    LET recent_20 == LastN(history, 20)
        recent_10 == LastN(history, 10)
        recent_5 == LastN(history, 5)
        last_insight == _get_last_insight(history)
    IN  [raised |-> FALSE,
         interaction_count |-> interaction_count(history),
         insight_count |-> _count_by_type(history, "save_user_insight"),
         filter_count_total |-> _count_by_type(history, "filter"),
         chart_type_changed_count |-> _count_by_type(history, "chart_type_changed"),
         mouseover_count_last_20 |-> _count_by_type(recent_20, "mouseover_item"),
         axis_changes_last_20 |-> _count_by_type(recent_20, "axis_attribute_changed"),
         axis_changes_last_10 |-> _count_by_type(recent_10, "axis_attribute_changed"),
         chart_changes_last_20 |-> _count_by_type(recent_20, "chart_type_changed"),
         chart_changes_last_30 |-> _count_by_type(LastN(history, 30), "chart_type_changed"),
         same_x_attribute_last_n_steps |-> _count_consecutive_same(history, "x_attribute"),
         same_y_attribute_last_n_steps |-> _count_consecutive_same(history, "y_attribute"),
         consecutive_same_axis |-> _count_consecutive_same(history, "x_attribute"),
         steps_since_last_insight |-> _steps_since(history, "save_user_insight"),
         last_insight |-> last_insight,
         last_insight_length |-> TextLen(last_insight),
         last_insight_no_numbers |-> ~_has_numbers(last_insight),
         save_insight_last_20 |-> _count_by_type(recent_20, "save_user_insight") > 0,
         current_x_attribute |-> current_context.x_attribute,
         current_y_attribute |-> current_context.y_attribute,
         current_chart_type |-> current_context.chart_type,
         mouseover_after_insight |-> _steps_since_insight(history, "mouseover_item"),
         no_mouseover_after_insight |-> _steps_since_insight(history, "mouseover_item") > 10,
         rapid_chart_changes |-> _detect_rapid_changes(recent_10, "chart_type_changed", 5),
         no_sustained_focus |-> _detect_no_sustained_focus(history),
         diverse_interactions |-> _check_diverse_interactions(history),
         no_axis_change_after |-> _steps_without_type(history, "axis_attribute_changed") > 15,
         no_filter_usage_after |-> _steps_without_type(history, "filter") > 10,
         recent_actions |-> [i \in DOMAIN recent_5 |-> recent_action_of(recent_5[i])]]

----------------------------------------------------------------------------
(* Configuration: constraints, conditions, categories *)

\* a key the JSON object lacks (None is a JSON null)
Missing == "Missing"

\* One entry of a detection_rule: the key and the constraint, whose Python type is
\* kind: "range" a dict, "bool", "num" an int, "list", "str".
Constraint(key, kind, has_min, min, has_max, max, bval, nval, words) ==
    [key |-> key, kind |-> kind, has_min |-> has_min, min |-> min,
     has_max |-> has_max, max |-> max, bval |-> bval, nval |-> nval, words |-> words]

MinC(key, lo) == Constraint(key, "range", TRUE, lo, FALSE, 0, FALSE, 0, <<>>)
MaxC(key, hi) == Constraint(key, "range", FALSE, 0, TRUE, hi, FALSE, 0, <<>>)
MinMaxC(key, lo, hi) == Constraint(key, "range", TRUE, lo, TRUE, hi, FALSE, 0, <<>>)
DictC(key) == Constraint(key, "range", FALSE, 0, FALSE, 0, FALSE, 0, <<>>)
BoolC(key, b) == Constraint(key, "bool", FALSE, 0, FALSE, 0, b, 0, <<>>)
NumC(key, n) == Constraint(key, "num", FALSE, 0, FALSE, 0, FALSE, n, <<>>)
ListC(key, words) == Constraint(key, "list", FALSE, 0, FALSE, 0, FALSE, 0, words)

Condition(name, detection_rule, question_template) ==
    [name |-> name, detection_rule |-> detection_rule, question_template |-> question_template]

Category(category, priority, conditions) ==
    [category |-> category, priority |-> priority, conditions |-> conditions]

DefaultPriorityOrder == <<"clarity", "relevance", "accuracy", "precision", "depth", "breadth">>

DefaultCooldown == 20

\* what SocraticEngine.__init__ keeps of the configuration file
Config(cooldown_period, priority_order, triggers) ==
    [cooldown_period |-> cooldown_period, priority_order |-> priority_order,
     triggers |-> triggers]

----------------------------------------------------------------------------
(* RuleEvaluator *)

\* the Python type of each feature's value
IntFeatures == {"interaction_count", "insight_count", "filter_count_total",
                "chart_type_changed_count", "mouseover_count_last_20",
                "axis_changes_last_20", "axis_changes_last_10", "chart_changes_last_20",
                "chart_changes_last_30", "same_x_attribute_last_n_steps",
                "same_y_attribute_last_n_steps", "consecutive_same_axis",
                "steps_since_last_insight", "last_insight_length",
                "mouseover_after_insight"}

BoolFeatures == {"last_insight_no_numbers", "save_insight_last_20",
                 "no_mouseover_after_insight", "rapid_chart_changes", "no_sustained_focus",
                 "diverse_interactions", "no_axis_change_after", "no_filter_usage_after"}

TextFeatures == {"last_insight", "current_x_attribute", "current_y_attribute",
                 "current_chart_type"}

BoolAsInt(b) == IF b THEN 1 ELSE 0

\* features.get(key) is None
FeatureIsNone(features, key) ==
    \/ key \notin DOMAIN features
    \/ key \in IntFeatures /\ features[key] = NoneInt
    \/ key \in TextFeatures /\ features[key] = None

IsNumeric(features, key) ==
    ~FeatureIsNone(features, key) /\ key \in IntFeatures \cup BoolFeatures

\* the value of a numeric feature in a comparison (a bool compares as 0 or 1)
NumOf(features, key) ==
    IF key \in BoolFeatures THEN BoolAsInt(features[key]) ELSE features[key]

\* bool(features.get(key))
FeatureTruthy(features, key) ==
    IF FeatureIsNone(features, key) THEN FALSE
    ELSE IF key \in IntFeatures THEN features[key] # 0
    ELSE IF key \in BoolFeatures THEN features[key]
    ELSE IF key \in TextFeatures THEN features[key] # ""
    ELSE features[key] # <<>>

\* features.get(key) == constraint
FeatureEquals(features, key, constraint) ==
    IF ~IsNumeric(features, key) THEN FALSE
    ELSE IF constraint.kind = "bool" THEN NumOf(features, key) = BoolAsInt(constraint.bval)
    ELSE IF constraint.kind = "num" THEN NumOf(features, key) = constraint.nval
    ELSE FALSE

\* word.lower() in text.lower(), for the texts and words the model uses
TextContains(text, word) ==
    <<text, word>> \in {<<ShortText, "higher">>, <<ShortNumText, "percent">>,
                        <<LongText, "long">>}

_check_text_contains(text, words) ==
    IF ~Truthy(text) THEN FALSE
    ELSE \E i \in DOMAIN words : TextContains(text, words[i])

\* the range check with exclusive bounds, value <= min and value >= max failing
_check_range_constraint_exclusive(features, key, constraint) ==
    IF FeatureIsNone(features, key) THEN [raised |-> FALSE, ok |-> FALSE]
    ELSE IF ~IsNumeric(features, key)
    THEN IF constraint.has_min \/ constraint.has_max
         THEN [raised |-> TRUE, ok |-> FALSE]
         ELSE [raised |-> FALSE, ok |-> TRUE]
    ELSE IF constraint.has_min /\ NumOf(features, key) <= constraint.min
    THEN [raised |-> FALSE, ok |-> FALSE]
    ELSE IF constraint.has_max /\ NumOf(features, key) >= constraint.max
    THEN [raised |-> FALSE, ok |-> FALSE]
    ELSE [raised |-> FALSE, ok |-> TRUE]

\* _check_range_constraint on features.get(key); ordering a str or a list against a
\* number raises TypeError
_check_range_constraint(features, key, constraint) ==
    IF FeatureIsNone(features, key) THEN [raised |-> FALSE, ok |-> FALSE]
    ELSE IF ~IsNumeric(features, key)
    THEN IF constraint.has_min \/ constraint.has_max
         THEN [raised |-> TRUE, ok |-> FALSE]
         ELSE [raised |-> FALSE, ok |-> TRUE]
    ELSE IF constraint.has_min /\ NumOf(features, key) < constraint.min
    THEN [raised |-> FALSE, ok |-> FALSE]
    ELSE IF constraint.has_max /\ NumOf(features, key) > constraint.max
    THEN [raised |-> FALSE, ok |-> FALSE]
    ELSE [raised |-> FALSE, ok |-> TRUE]

_check_rapid_changes(constraint, features) ==
    IF constraint.kind = "range" THEN features.rapid_chart_changes = TRUE
    ELSE FeatureEquals(features, "rapid_chart_changes", constraint)

_check_array_constraint(key, constraint, features) ==
    IF key \in {"last_insight_contains"}
    THEN _check_text_contains(features.last_insight, constraint.words)
    ELSE FALSE

_check_single_constraint(key, constraint, features) ==
    IF key = "rapid_chart_changes"
    THEN [raised |-> FALSE, ok |-> _check_rapid_changes(constraint, features)]
    ELSE IF key = "last_insight_contains"
    THEN IF ~Truthy(features.last_insight) THEN [raised |-> FALSE, ok |-> FALSE]
         ELSE IF constraint.kind \in {"bool", "num"} THEN [raised |-> TRUE, ok |-> FALSE]
         ELSE [raised |-> FALSE,
               ok |-> _check_text_contains(features.last_insight, constraint.words)]
    ELSE IF key = "no_specific_numbers"
    THEN [raised |-> FALSE, ok |-> FeatureEquals(features, "last_insight_no_numbers", constraint)]
    ELSE IF key = "no_sustained_focus"
    THEN [raised |-> FALSE, ok |-> FeatureEquals(features, "no_sustained_focus", constraint)]
    ELSE IF key = "diverse_interactions"
    THEN [raised |-> FALSE, ok |-> FeatureEquals(features, "diverse_interactions", constraint)]
    ELSE IF constraint.kind = "range" THEN _check_range_constraint(features, key, constraint)
    ELSE IF constraint.kind = "bool"
    THEN [raised |-> FALSE, ok |-> FeatureEquals(features, key, constraint)]
    ELSE IF constraint.kind = "num"
    THEN [raised |-> FALSE, ok |-> FeatureEquals(features, key, constraint)]
    ELSE IF constraint.kind = "list"
    THEN [raised |-> FALSE, ok |-> _check_array_constraint(key, constraint, features)]
    ELSE [raised |-> FALSE, ok |-> TRUE]

\* the loop of _check_condition from constraint i on; an exception makes it False
RECURSIVE check_condition_from(_, _, _)
check_condition_from(rule, features, i) ==
    IF i > Len(rule) THEN TRUE
    ELSE LET r == _check_single_constraint(rule[i].key, rule[i], features) IN
         IF r.raised THEN FALSE
         ELSE IF ~r.ok THEN FALSE
         ELSE check_condition_from(rule, features, i + 1)

\* the check without its try: a constraint that raises counts as one that holds
_check_condition_error_matches(rule, features) ==
    \A i \in DOMAIN rule :
        LET r == _check_single_constraint(rule[i].key, rule[i], features)
        IN  r.raised \/ r.ok

_check_condition(rule, features) == check_condition_from(rule, features, 1)

\* whether _calculate_confidence counts the constraint as a strong match
StrongMatch(constraint, features) ==
    IF constraint.kind = "range"
    THEN IF /\ constraint.has_min
            /\ FeatureTruthy(features, constraint.key)
            /\ IsNumeric(features, constraint.key)
            /\ 2 * NumOf(features, constraint.key) > 3 * constraint.min
         THEN TRUE
         ELSE /\ constraint.has_max
              /\ FeatureTruthy(features, constraint.key)
              /\ IsNumeric(features, constraint.key)
              /\ 4 * NumOf(features, constraint.key) < 3 * constraint.max
    ELSE TRUE

base_confidence == Hundredths(75)

max_confidence == Hundredths(99)

Min2(a, b) == IF a <= b THEN a ELSE b

\* the score with a base of 0.70
_calculate_confidence_low_base(condition, features) ==
    LET rule == condition.detection_rule
        total_constraints == Len(rule)
        strong_matches == Cardinality({i \in DOMAIN rule : StrongMatch(rule[i], features)})
        match_bonus == IF total_constraints > 0
                       THEN (strong_matches * Hundredths(20)) \div total_constraints
                       ELSE 0
    IN  Min2(Hundredths(70) + match_bonus, max_confidence)

_calculate_confidence(condition, features) ==
    LET rule == condition.detection_rule
        total_constraints == Len(rule)
        strong_matches == Cardinality({i \in DOMAIN rule : StrongMatch(rule[i], features)})
        match_bonus == IF total_constraints > 0
                       THEN (strong_matches * Hundredths(20)) \div total_constraints
                       ELSE 0
    IN  Min2(base_confidence + match_bonus, max_confidence)

\* the (category, condition) pairs in the order evaluate visits them
RECURSIVE AllConditions(_)
AllConditions(triggers) ==
    IF triggers = <<>> THEN <<>>
    ELSE LET c == Head(triggers)
         IN  [i \in DOMAIN c.conditions |->
                 [category |-> c.category, priority |-> c.priority,
                  condition |-> c.conditions[i]]]
             \o AllConditions(Tail(triggers))

TriggeredRule(entry, features) ==
    [category |-> entry.category,
     condition_name |-> entry.condition.name,
     priority |-> entry.priority,
     question_template |-> entry.condition.question_template,
     confidence |-> _calculate_confidence(entry.condition, features)]

\* RuleEvaluator.evaluate; building the entry of a matching condition that has no
\* question_template raises KeyError
evaluate(triggers, features) ==
    LET matching == SelectSeq(AllConditions(triggers),
                              LAMBDA e : _check_condition(e.condition.detection_rule, features))
    IN  IF \E i \in DOMAIN matching : matching[i].condition.question_template = Missing
        THEN [raised |-> TRUE]
        ELSE [raised |-> FALSE,
              rules |-> [i \in DOMAIN matching |-> TriggeredRule(matching[i], features)]]

----------------------------------------------------------------------------
(* Rule selection: SocraticEngine._select_best_rule *)

\* the first of the positions in S (next(...), min, max and list.index keep the first
\* of equal candidates)
FirstIn(S) == CHOOSE i \in S : \A j \in S : i <= j

\* next((r for r in triggered_rules if r['category'] == category), None), when there
\* is one
FirstOfCategory(rules, category) ==
    rules[FirstIn({i \in DOMAIN rules : rules[i].category = category})]

\* a boost that returns a new rule named after the boost instead of the triggered one
BoostedAsNewRule(rule) ==
    [rule EXCEPT !.confidence = (rule.confidence * 6) \div 5, !.condition_name = "boosted"]

\* confidence *= 1.2
Boosted(rule) == [rule EXCEPT !.confidence = (rule.confidence * 6) \div 5]

\* max(rules, key=lambda r: r['confidence'])
MaxByConfidence(rules) ==
    rules[FirstIn({i \in DOMAIN rules :
                      \A j \in DOMAIN rules : rules[j].confidence <= rules[i].confidence})]

\* the window of the post-insight boost without its first step
PostInsightFromSecondStep(features) ==
    /\ features.insight_count > 0
    /\ features.steps_since_last_insight # NoneInt
    /\ 1 < features.steps_since_last_insight
    /\ features.steps_since_last_insight <= 5

\* Boost 1's condition on the features
PostInsight(features) ==
    /\ features.insight_count > 0
    /\ features.steps_since_last_insight # NoneInt
    /\ 1 <= features.steps_since_last_insight
    /\ features.steps_since_last_insight <= 5

\* the comparison of the stuck-on-attribute boost turned around
StuckOnAttributeReversed(features) == features.same_x_attribute_last_n_steps < 40

\* Boost 2's condition on the features
StuckOnAttribute(features) == features.same_x_attribute_last_n_steps > 40

\* the boosts with the stuck-on-attribute boost tried before the post-insight boost
_check_boost_conditions_stuck_first(triggered_rules, features) ==
    LET depth_breadth == SelectSeq(triggered_rules, LAMBDA r : r.category \in {"depth", "breadth"})
        has_breadth == \E i \in DOMAIN triggered_rules : triggered_rules[i].category = "breadth"
        has_clarity == \E i \in DOMAIN triggered_rules : triggered_rules[i].category = "clarity"
    IN  IF StuckOnAttribute(features) /\ has_breadth
        THEN [found |-> TRUE,
              rule |-> Boosted(FirstOfCategory(triggered_rules, "breadth"))]
        ELSE IF PostInsight(features) /\ depth_breadth # <<>>
        THEN [found |-> TRUE, rule |-> MaxByConfidence(depth_breadth)]
        ELSE IF features.interaction_count < 30 /\ features.insight_count = 0 /\ has_clarity
        THEN [found |-> TRUE,
              rule |-> Boosted(FirstOfCategory(triggered_rules, "clarity"))]
        ELSE [found |-> FALSE]

_check_boost_conditions(triggered_rules, features) ==
    LET depth_breadth == SelectSeq(triggered_rules, LAMBDA r : r.category \in {"depth", "breadth"})
        has_breadth == \E i \in DOMAIN triggered_rules : triggered_rules[i].category = "breadth"
        has_clarity == \E i \in DOMAIN triggered_rules : triggered_rules[i].category = "clarity"
    IN  IF PostInsight(features) /\ depth_breadth # <<>>
        THEN [found |-> TRUE, rule |-> MaxByConfidence(depth_breadth)]
        ELSE IF StuckOnAttribute(features) /\ has_breadth
        THEN [found |-> TRUE,
              rule |-> Boosted(FirstOfCategory(triggered_rules, "breadth"))]
        ELSE IF features.interaction_count < 30 /\ features.insight_count = 0 /\ has_clarity
        THEN [found |-> TRUE,
              rule |-> Boosted(FirstOfCategory(triggered_rules, "clarity"))]
        ELSE [found |-> FALSE]

\* a rank that puts the categories the list lacks before the listed ones (str.find's -1)
get_priority_unlisted_first(priority_order, rule) ==
    IF \E i \in DOMAIN priority_order : priority_order[i] = rule.category
    THEN FirstIn({i \in DOMAIN priority_order : priority_order[i] = rule.category}) - 1
    ELSE -1

\* priority_order.index(category), or 999
get_priority(priority_order, rule) ==
    IF \E i \in DOMAIN priority_order : priority_order[i] = rule.category
    THEN FirstIn({i \in DOMAIN priority_order : priority_order[i] = rule.category}) - 1
    ELSE 999

\* (get_priority(a), -a.confidence) <= (get_priority(b), -b.confidence)
RankLeq(priority_order, a, b) ==
    \/ get_priority(priority_order, a) < get_priority(priority_order, b)
    \/ /\ get_priority(priority_order, a) = get_priority(priority_order, b)
       /\ a.confidence >= b.confidence

_select_best_rule(priority_order, triggered_rules, features) ==
    LET boosted_rule == _check_boost_conditions(triggered_rules, features)
    IN  IF boosted_rule.found THEN boosted_rule.rule
        ELSE triggered_rules[FirstIn({i \in DOMAIN triggered_rules :
                 \A j \in DOMAIN triggered_rules :
                     RankLeq(priority_order, triggered_rules[i], triggered_rules[j])})]

----------------------------------------------------------------------------
(* QuestionGenerator *)

\* how the external generation call ends
LlmOutcomes == {"ok", "raises", "malformed", "timeout"}

_is_simple_case(rule, features) ==
    LET checks == <<features.interaction_count < 50,
                    TextLen(features.last_insight) < 80,
                    rule.category \in {"clarity", "breadth"}>>
        matched_checks == Cardinality({i \in DOMAIN checks : checks[i]})
    IN  matched_checks >= 2

\* _generate_from_template: the template with its placeholders filled from the
\* features; a template that is no string (a JSON null) raises TypeError
_generate_from_template(rule, features) ==
    IF rule.question_template = None THEN [raised |-> TRUE]
    ELSE [raised |-> FALSE,
          text |-> [origin |-> "template", template |-> rule.question_template,
                    x_attribute |-> features.current_x_attribute]]

\* _generate_from_llm: the client's answer, or the template when the call fails
_generate_from_llm(rule, features, outcome) ==
    IF outcome = "ok"
    THEN [raised |-> FALSE,
          text |-> [origin |-> "llm", template |-> rule.question_template,
                    x_attribute |-> features.current_x_attribute]]
    ELSE _generate_from_template(rule, features)

\* the try block without "or not self.llm_client": with no client the call raises
\* AttributeError, which _generate_from_llm catches
generate_attempt_ignoring_client(client, triggered_rule, features, outcome) ==
    IF _is_simple_case(triggered_rule, features)
    THEN [gen |-> _generate_from_template(triggered_rule, features), method |-> "template"]
    ELSE [gen |-> _generate_from_llm(triggered_rule, features,
                                     IF client THEN outcome ELSE "raises"),
          method |-> "llm"]

\* the try block of generate: the question and the method tag, or an exception
generate_attempt(client, triggered_rule, features, outcome) ==
    IF _is_simple_case(triggered_rule, features) \/ ~client
    THEN [gen |-> _generate_from_template(triggered_rule, features), method |-> "template"]
    ELSE [gen |-> _generate_from_llm(triggered_rule, features, outcome), method |-> "llm"]

generate(client, triggered_rule, features, outcome) ==
    LET attempt == generate_attempt(client, triggered_rule, features, outcome)
        fallback == _generate_from_template(triggered_rule, features)
        gen == IF attempt.gen.raised THEN fallback ELSE attempt.gen
        method == IF attempt.gen.raised THEN "template-fallback" ELSE attempt.method
    IN  IF gen.raised THEN [raised |-> TRUE]
        ELSE [raised |-> FALSE,
              question |-> gen.text,
              category |-> triggered_rule.category,
              method |-> method,
              template_used |-> triggered_rule.question_template]

----------------------------------------------------------------------------
(* SocraticEngine: sessions and statistics *)

Users == {"u1", "u2"}

\* a user id that cannot be a dict key (a list, a dict)
UnhashableId == "unhashable"

InitialLastQuestionStep == -999

\* a new session whose lastQuestionStep is 0: the cooldown also delays the first question
NewSessionInCooldown(user_id) ==
    [userId |-> user_id, history |-> <<>>, lastQuestionStep |-> 0, questionsAsked |-> <<>>]

\* the session _get_or_create_session creates
NewSession(user_id) ==
    [userId |-> user_id, history |-> <<>>,
     lastQuestionStep |-> InitialLastQuestionStep, questionsAsked |-> <<>>]

\* creation that rebinds the whole dict, self.user_sessions = {user_id: {...}}: the
\* sessions of the other users are gone
_get_or_create_session_rebinding(sessions, user_id) ==
    IF user_id \in DOMAIN sessions THEN sessions
    ELSE [u \in {user_id} |-> NewSession(user_id)]

\* user_sessions after _get_or_create_session(user_id)
_get_or_create_session(sessions, user_id) ==
    IF user_id \in DOMAIN sessions THEN sessions
    ELSE [u \in DOMAIN sessions \cup {user_id} |->
             IF u = user_id THEN NewSession(user_id) ELSE sessions[u]]

InitialStats ==
    [total_interactions_processed |-> 0, questions_triggered |-> 0,
     questions_by_category |-> EmptyDict, cooldown_blocks |-> 0, no_trigger_events |-> 0]

\* d[k] = d.get(k, 0) + 1
Increment(d, k) ==
    [x \in DOMAIN d \cup {k} |->
        IF x = k THEN (IF k \in DOMAIN d THEN d[k] ELSE 0) + 1 ELSE d[x]]

\* an except clause that does not cover the failure: the exception reaches the caller
ErrorEscapes(message) == [raised |-> TRUE, exception |-> message]

\* the except clause of process_interaction
ErrorResult(message) == [should_ask |-> FALSE, reason |-> "error", error |-> message]

\* the gate with the comparison off by one: a question one step too early
InCooldownOffByOne(cfg, session, current_step) ==
    current_step - session.lastQuestionStep < cfg.cooldown_period - 1

\* current_step - session['lastQuestionStep'] < self.cooldown_period
InCooldown(cfg, session, current_step) ==
    current_step - session.lastQuestionStep < cfg.cooldown_period

\* whether generate would make the external call for the rule the pipeline selects
WouldCallLlm(cfg, client, sessions, user_id, interaction, current_context) ==
    /\ client
    /\ user_id # UnhashableId
    /\ interaction # NoneDict
    /\ LET session == _get_or_create_session(sessions, user_id)[user_id]
           history == Append(session.history, interaction)
           features == extract(history, current_context)
       IN  /\ ~InCooldown(cfg, session, Len(history))
           /\ ~features.raised
           /\ LET triggered == evaluate(cfg.triggers, features)
              IN  /\ ~triggered.raised
                  /\ triggered.rules # <<>>
                  /\ ~_is_simple_case(
                        _select_best_rule(cfg.priority_order, triggered.rules, features),
                        features)

\* the local variables of process_interaction after rule selection (step 6)
FrameOf(cfg, current_step, features, triggered) ==
    [current_step |-> current_step,
     features |-> features,
     triggered |-> triggered,
     best_rule |-> IF features.raised \/ triggered.raised \/ triggered.rules = <<>>
                   THEN [category |-> None]
                   ELSE _select_best_rule(cfg.priority_order, triggered.rules, features)]

\* step 5 of process_interaction: the rules are evaluated on the features
FrameWith(cfg, current_step, features) ==
    FrameOf(cfg, current_step, features, evaluate(cfg.triggers, features))

\* what process_interaction holds in local variables when it awaits generate
PipelineFrame(cfg, sessions, user_id, current_context) ==
    FrameWith(cfg, Len(sessions[user_id].history),
              extract(sessions[user_id].history, current_context))

\* steps 7 to 9 of process_interaction: the question is generated, the session and the
\* statistics are updated from the local variables, the result is returned
FinishPipeline(client, sessions, st, user_id, frame, outcome) ==
    LET session == sessions[user_id]
        current_step == frame.current_step
        best_rule == frame.best_rule
        triggered == frame.triggered
        question_result == generate(client, best_rule, frame.features, outcome)
    IN  IF question_result.raised
        THEN [user_sessions |-> sessions, stats |-> st,
              result |-> ErrorResult("argument of type 'NoneType' is not iterable")]
        ELSE LET asked == [session EXCEPT
                              !.lastQuestionStep = current_step,
                              !.questionsAsked = Append(@,
                                  [step |-> current_step,
                                   category |-> best_rule.category,
                                   condition |-> best_rule.condition_name,
                                   question |-> question_result.question,
                                   response |-> None])]
             IN  [user_sessions |-> [sessions EXCEPT ![user_id] = asked],
                  stats |-> [st EXCEPT
                                !.questions_triggered = @ + 1,
                                !.questions_by_category = Increment(@, best_rule.category)],
                  result |-> [should_ask |-> TRUE, reason |-> None,
                              question |-> question_result.question,
                              category |-> question_result.category,
                              method |-> question_result.method,
                              template_used |-> question_result.template_used,
                              trigger_details |->
                                  [condition_name |-> best_rule.condition_name,
                                   confidence |-> best_rule.confidence,
                                   all_triggered |->
                                       [i \in DOMAIN triggered.rules |->
                                           triggered.rules[i].condition_name],
                                   total_triggered |-> Len(triggered.rules)],
                              session_info |->
                                  [total_interactions |-> Len(asked.history),
                                   questions_asked |-> Len(asked.questionsAsked),
                                   last_question_step |-> asked.lastQuestionStep]]]

\* steps 4 to 9 of process_interaction on the local variables of its steps 4 to 6:
\* the early returns, then generation and the updates
RunFrame(client, sessions, st, user_id, frame, outcome) ==
    LET features == frame.features
        triggered == frame.triggered
    IN  IF features.raised
        THEN [user_sessions |-> sessions, stats |-> st,
              result |-> ErrorResult("'NoneType' object has no attribute 'get'")]
        ELSE IF triggered.raised
        THEN [user_sessions |-> sessions, stats |-> st,
              result |-> ErrorResult("'question_template'")]
        ELSE IF triggered.rules = <<>>
        THEN [user_sessions |-> sessions,
              stats |-> [st EXCEPT !.no_trigger_events = @ + 1],
              result |-> [should_ask |-> FALSE, reason |-> "no_trigger",
                          debug |-> [interaction_count |-> features.interaction_count,
                                     insight_count |-> features.insight_count]]]
        ELSE FinishPipeline(client, sessions, st, user_id, frame, outcome)

\* the pipeline recording the step of a question counted from zero:
\* session['lastQuestionStep'] = current_step - 1
RunPipelineZeroBasedStep(cfg, client, sessions, st, user_id, current_context, outcome) ==
    LET r == RunFrame(client, sessions, st, user_id,
                      PipelineFrame(cfg, sessions, user_id, current_context), outcome)
    IN  IF r.result.should_ask
        THEN [r EXCEPT !.user_sessions[user_id].lastQuestionStep = @ - 1]
        ELSE r

\* the pipeline counting the questions in total only: questions_by_category is left
\* as it was
RunPipelineNotCountingCategory(cfg, client, sessions, st, user_id, current_context, outcome) ==
    LET r == RunFrame(client, sessions, st, user_id,
                      PipelineFrame(cfg, sessions, user_id, current_context), outcome)
    IN  [r EXCEPT !.stats.questions_by_category = st.questions_by_category]

\* the pipeline taking the event back out of the history when a stage fails
RunPipelineDroppingFailedEvent(cfg, client, sessions, st, user_id, current_context, outcome) ==
    LET r == RunFrame(client, sessions, st, user_id,
                      PipelineFrame(cfg, sessions, user_id, current_context), outcome)
    IN  IF r.result.reason = "error"
        THEN [r EXCEPT !.user_sessions[user_id].history = SubSeq(@, 1, Len(@) - 1)]
        ELSE r

\* steps 4 to 9 of process_interaction, for the session with the event appended:
\* the sessions, the statistics and the value returned
RunPipeline(cfg, client, sessions, st, user_id, current_context, outcome) ==
    RunFrame(client, sessions, st, user_id,
             PipelineFrame(cfg, sessions, user_id, current_context), outcome)

\* the gate placed after feature extraction: the features are extracted in the
\* cooldown as well
CooldownGateAfterExtraction(cfg, client, sessions, st, user_id, current_context, outcome) ==
    LET session == sessions[user_id]
        current_step == Len(session.history)
    IN  IF extract(session.history, current_context).raised
        THEN [user_sessions |-> sessions, stats |-> st,
              result |-> ErrorResult("'NoneType' object has no attribute 'get'")]
        ELSE IF InCooldown(cfg, session, current_step)
        THEN [user_sessions |-> sessions,
              stats |-> [st EXCEPT !.cooldown_blocks = @ + 1],
              result |-> [should_ask |-> FALSE, reason |-> "cooldown",
                          steps_until_next |->
                              cfg.cooldown_period - (current_step - session.lastQuestionStep)]]
        ELSE RunPipeline(cfg, client, sessions, st, user_id, current_context, outcome)

\* the gate reporting the steps left after the next event:
\* cooldown_period - (current_step - lastQuestionStep) - 1
CooldownGateStepsAfterNext(cfg, client, sessions, st, user_id, current_context, outcome) ==
    LET session == sessions[user_id]
        current_step == Len(session.history)
    IN  IF InCooldown(cfg, session, current_step)
        THEN [user_sessions |-> sessions,
              stats |-> [st EXCEPT !.cooldown_blocks = @ + 1],
              result |-> [should_ask |-> FALSE, reason |-> "cooldown",
                          steps_until_next |->
                              cfg.cooldown_period - (current_step - session.lastQuestionStep) - 1]]
        ELSE RunPipeline(cfg, client, sessions, st, user_id, current_context, outcome)

\* step 3 of process_interaction: the cooldown gate, for the session with the event
\* appended
CooldownGate(cfg, client, sessions, st, user_id, current_context, outcome) ==
    LET session == sessions[user_id]
        current_step == Len(session.history)
    IN  IF InCooldown(cfg, session, current_step)
        THEN [user_sessions |-> sessions,
              stats |-> [st EXCEPT !.cooldown_blocks = @ + 1],
              result |-> [should_ask |-> FALSE, reason |-> "cooldown",
                          steps_until_next |->
                              cfg.cooldown_period - (current_step - session.lastQuestionStep)]]
        ELSE RunPipeline(cfg, client, sessions, st, user_id, current_context, outcome)

\* an append that keeps a sliding window of the last three entries
history_append_windowed(history, interaction) == LastN(Append(history, interaction), 3)

\* session['history'].append({**interaction, 'processed_at': ...})
history_append(history, interaction) == Append(history, interaction)

\* SocraticEngine.process_interaction: the sessions, the statistics and the value
\* returned (a field raised: the exception that escaped)
process_interaction(cfg, client, sessions, st, user_id, interaction, current_context, outcome) ==
    LET st1 == [st EXCEPT !.total_interactions_processed = @ + 1]
        created == _get_or_create_session(sessions, user_id)
        appended == [created EXCEPT ![user_id].history = history_append(@, interaction)]
    IN  IF user_id = UnhashableId
        THEN [user_sessions |-> sessions, stats |-> st1,
              result |-> ErrorResult("unhashable type: 'list'")]
        ELSE IF interaction = NoneDict
        THEN [user_sessions |-> created, stats |-> st1,
              result |-> ErrorResult("'NoneType' object is not a mapping")]
        ELSE CooldownGate(cfg, client, appended, st1, user_id, current_context, outcome)

\* a save_user_response that looks the session up with _get_or_create_session: an
\* unknown user gets a session
save_user_response_creating_session(sessions, user_id, question_id, response_text) ==
    LET created == _get_or_create_session(sessions, user_id)
        session == created[user_id]
        n == Len(session.questionsAsked)
        answered == [session EXCEPT
                        !.history = Append(@, ResponseEntry),
                        !.questionsAsked =
                            IF n > 0 THEN [@ EXCEPT ![n].response = response_text]
                            ELSE @]
    IN  [user_sessions |-> [created EXCEPT ![user_id] = answered],
         result |-> [success |-> TRUE, session_length |-> Len(answered.history)]]

\* process_interaction up to the external call inside generate (made only when
\* WouldCallLlm): the event is appended, the gate passed, the rule selected, and the
\* local variables are held while the call is outstanding
process_interaction_until_call(cfg, client, sessions, st, user_id, interaction, current_context) ==
    LET st1 == [st EXCEPT !.total_interactions_processed = @ + 1]
        created == _get_or_create_session(sessions, user_id)
        appended == [created EXCEPT ![user_id].history = history_append(@, interaction)]
    IN  [user_sessions |-> appended, stats |-> st1,
         frame |-> PipelineFrame(cfg, appended, user_id, current_context)]

\* SocraticEngine.save_user_response
\* a save_user_response that records the response in the question log only: no
\* entry is appended to the history
save_user_response_log_only(sessions, user_id, question_id, response_text) ==
    IF user_id \in DOMAIN sessions
    THEN LET session == sessions[user_id]
             n == Len(session.questionsAsked)
             answered == [session EXCEPT
                             !.questionsAsked =
                                 IF n > 0 THEN [@ EXCEPT ![n].response = response_text]
                                 ELSE @]
         IN  [user_sessions |-> [sessions EXCEPT ![user_id] = answered],
              result |-> [success |-> TRUE, session_length |-> Len(answered.history)]]
    ELSE [user_sessions |-> sessions,
          result |-> [success |-> FALSE, error |-> "Session not found"]]

save_user_response(sessions, user_id, question_id, response_text) ==
    IF user_id \in DOMAIN sessions
    THEN LET session == sessions[user_id]
             n == Len(session.questionsAsked)
             answered == [session EXCEPT
                             !.history = Append(@, ResponseEntry),
                             !.questionsAsked =
                                 IF n > 0 THEN [@ EXCEPT ![n].response = response_text]
                                 ELSE @]
         IN  [user_sessions |-> [sessions EXCEPT ![user_id] = answered],
              result |-> [success |-> TRUE, session_length |-> Len(answered.history)]]
    ELSE [user_sessions |-> sessions,
          result |-> [success |-> FALSE, error |-> "Session not found"]]

\* a reset that empties the history and the log of the session and keeps the step
\* of its last question
reset_user_session_keeping_cooldown(sessions, user_id) ==
    [user_sessions |->
        [u \in DOMAIN sessions |->
            IF u = user_id
            THEN [NewSession(u) EXCEPT !.lastQuestionStep = sessions[u].lastQuestionStep]
            ELSE sessions[u]],
     result |-> [success |-> TRUE]]

\* SocraticEngine.reset_user_session
reset_user_session(sessions, user_id) ==
    [user_sessions |-> [u \in DOMAIN sessions \ {user_id} |-> sessions[u]],
     result |-> [success |-> TRUE]]

\* SocraticEngine.clear_all_sessions
clear_all_sessions(sessions) ==
    [user_sessions |-> EmptyDict,
     result |-> [success |-> TRUE, cleared |-> Cardinality(DOMAIN sessions)]]

\* SocraticEngine.get_user_session: self.user_sessions.get(user_id)
get_user_session(sessions, user_id) ==
    IF user_id \in DOMAIN sessions THEN sessions[user_id] ELSE NoneDict

Max2(a, b) == IF a >= b THEN a ELSE b

RECURSIVE Gcd(_, _)
Gcd(a, b) == IF b = 0 THEN a ELSE Gcd(b, a % b)

\* the float a / b, as the fraction in lowest terms
Quotient(a, b) == LET g == Gcd(a, b) IN [num |-> a \div g, den |-> b \div g]

\* a get_stats that counts itself as a processed interaction
get_stats_counting_itself(st, sessions) ==
    LET counted == [st EXCEPT !.total_interactions_processed = @ + 1]
        active_sessions == Cardinality(DOMAIN sessions)
    IN  [user_sessions |-> sessions, stats |-> counted,
         result |-> [stats |-> counted,
                     active_sessions |-> active_sessions,
                     avg_questions_per_session |->
                         Quotient(counted.questions_triggered, Max2(1, active_sessions)),
                     trigger_rate |->
                         Quotient(counted.questions_triggered,
                                  Max2(1, counted.total_interactions_processed)),
                     cooldown_block_rate |->
                         Quotient(counted.cooldown_blocks,
                                  Max2(1, counted.total_interactions_processed))]]

\* SocraticEngine.get_stats: the sessions and the statistics after the call and the
\* dict returned ({**self.stats, ...}: the counters under the key stats)
get_stats(st, sessions) ==
    LET active_sessions == Cardinality(DOMAIN sessions)
    IN  [user_sessions |-> sessions, stats |-> st,
         result |-> [stats |-> st,
                     active_sessions |-> active_sessions,
                     avg_questions_per_session |->
                         Quotient(st.questions_triggered, Max2(1, active_sessions)),
                     trigger_rate |->
                         Quotient(st.questions_triggered,
                                  Max2(1, st.total_interactions_processed)),
                     cooldown_block_rate |->
                         Quotient(st.cooldown_blocks,
                                  Max2(1, st.total_interactions_processed))]]

\* an export that counts the interaction events only, not the responses
export_session_data_without_responses(sessions, user_id) ==
    IF user_id \notin DOMAIN sessions
    THEN [user_sessions |-> sessions, result |-> NoneDict]
    ELSE LET session == sessions[user_id]
         IN  [user_sessions |-> sessions,
              result |-> [userId |-> session.userId,
                          totalInteractions |->
                              Len(SelectSeq(session.history, LAMBDA h : h # ResponseEntry)),
                          questionsAsked |-> Len(session.questionsAsked),
                          history |-> session.history,
                          questions |-> session.questionsAsked]]

\* SocraticEngine.export_session_data: the sessions after the call and the value
\* returned (None for a user without a session)
export_session_data(sessions, user_id) ==
    IF user_id \notin DOMAIN sessions
    THEN [user_sessions |-> sessions, result |-> NoneDict]
    ELSE LET session == sessions[user_id]
         IN  [user_sessions |-> sessions,
              result |-> [userId |-> session.userId,
                          totalInteractions |-> Len(session.history),
                          questionsAsked |-> Len(session.questionsAsked),
                          history |-> session.history,
                          questions |-> session.questionsAsked]]

----------------------------------------------------------------------------
(* The configurations and the environment of the engine *)

MaxCalls == 5

MaxHistory == 5

MainCooldown == 3

ChartHopping ==
    Condition("chart_hopping",
              <<MinC("chart_changes_last_20", 2), BoolC("save_insight_last_20", FALSE)>>,
              "You switched charts {n_steps} times. What are you looking for?")

InsightSaved ==
    Condition("insight_saved", <<MinC("insight_count", 1)>>,
              "How does {insight_summary} relate to your goal?")

ReflectOnInsight ==
    Condition("reflect_on_insight",
              <<MinC("last_insight_length", 80), BoolC("last_insight_no_numbers", TRUE)>>,
              "What explains {insight_topic}?")

StuckOnX ==
    Condition("stuck_on_x", <<MinC("same_x_attribute_last_n_steps", 2)>>,
              "You have looked at {x_attribute} for {n_steps} steps. What else?")

MainTriggers ==
    <<Category("clarity", 1, <<ChartHopping>>),
      Category("relevance", 2, <<InsightSaved>>),
      Category("depth", 5, <<ReflectOnInsight>>),
      Category("breadth", 6, <<StuckOnX>>)>>

\* a configuration with metadata.cooldown_period and no priority_rules
ConfigMain == Config(MainCooldown, DefaultPriorityOrder, MainTriggers)

\* the same with two malformed conditions: one whose question_template is null and
\* one that has no question_template
BrokenTriggers ==
    <<Category("clarity", 1, <<ChartHopping>>),
      Category("relevance", 2, <<[InsightSaved EXCEPT !.question_template = None]>>),
      Category("depth", 5, <<ReflectOnInsight>>),
      Category("breadth", 6, <<[StuckOnX EXCEPT !.question_template = Missing]>>)>>

ConfigBroken == Config(MainCooldown, DefaultPriorityOrder, BrokenTriggers)

MainEvents == {EvChart, EvInsightLong}

\* the arguments of the process_interaction calls of a well-behaved transport layer
MainInputs == {<<u, e, CtxParty>> : u \in Users, e \in MainEvents}

FaultUser == "u1"

\* calls with at most one malformed argument: a user id that cannot be hashed, no
\* event, no context
FaultInputs ==
    {<<FaultUser, e, CtxParty>> : e \in MainEvents}
        \cup {<<UnhashableId, EvChart, CtxParty>>}
        \cup {<<FaultUser, NoneDict, CtxParty>>}
        \cup {<<FaultUser, e, NoneDict>> : e \in MainEvents}

\* the number of events the sessions of the users in us hold
RECURSIVE HistoryTotal(_, _)
HistoryTotal(sessions, us) ==
    IF us = {} THEN 0
    ELSE LET u == CHOOSE x \in us : TRUE
         IN  Len(sessions[u].history) + HistoryTotal(sessions, us \ {u})

TotalHistory(sessions) == HistoryTotal(sessions, DOMAIN sessions)

\* server.py before any event arrived: no handler, the event loop idle
IdleServer == [handlers |-> <<>>, running |-> 0]

----------------------------------------------------------------------------
(* Actions *)

\* SocraticEngine.__init__ with one of the configurations, with or without a client
Construct(configs) ==
    /\ config \in configs
    /\ llm_client \in BOOLEAN
    /\ user_sessions = EmptyDict
    /\ stats = InitialStats
    /\ call = [op |-> "init"]
    /\ result = [success |-> TRUE]
    /\ server = IdleServer

\* one call of process_interaction with arguments from inputs
ProcessInteractionWith(inputs) ==
    /\ stats.total_interactions_processed < MaxCalls
    /\ \E in \in inputs :
        /\ TotalHistory(user_sessions) < MaxHistory
        /\ \E outcome \in (IF WouldCallLlm(config, llm_client, user_sessions,
                                           in[1], in[2], in[3])
                           THEN LlmOutcomes ELSE {"not_called"}) :
            LET r == process_interaction(config, llm_client, user_sessions, stats,
                                         in[1], in[2], in[3], outcome)
            IN  /\ user_sessions' = r.user_sessions
                /\ stats' = r.stats
                /\ result' = r.result
                /\ call' = [op |-> "process_interaction", user_id |-> in[1],
                            interaction |-> in[2], current_context |-> in[3],
                            llm_outcome |-> outcome]
    /\ UNCHANGED <<config, llm_client, server>>

ProcessInteraction == ProcessInteractionWith(MainInputs)

SaveUserResponse ==
    /\ \E user_id \in Users :
        /\ TotalHistory(user_sessions) < MaxHistory
        /\ LET r == save_user_response(user_sessions, user_id, "q1", ShortText)
           IN  /\ user_sessions' = r.user_sessions
               /\ result' = r.result
               /\ call' = [op |-> "save_user_response", user_id |-> user_id]
    /\ UNCHANGED <<config, llm_client, stats, server>>

\* one call of reset_user_session for a user of users
ResetUserSession(users) ==
    /\ \E user_id \in users :
        LET r == reset_user_session(user_sessions, user_id)
        IN  /\ user_sessions' = r.user_sessions
            /\ result' = r.result
            /\ call' = [op |-> "reset_user_session", user_id |-> user_id]
    /\ UNCHANGED <<config, llm_client, stats, server>>

\* one call of get_stats; again: the call before it was a get_stats call too
GetStats ==
    /\ LET r == get_stats(stats, user_sessions)
       IN  /\ user_sessions' = r.user_sessions
           /\ stats' = r.stats
           /\ result' = r.result
           /\ call' = [op |-> "get_stats", again |-> call.op = "get_stats"]
    /\ UNCHANGED <<config, llm_client, server>>

\* one call of export_session_data
ExportSessionData ==
    /\ \E user_id \in Users :
        LET r == export_session_data(user_sessions, user_id)
        IN  /\ user_sessions' = r.user_sessions
            /\ result' = r.result
            /\ call' = [op |-> "export_session_data", user_id |-> user_id]
    /\ UNCHANGED <<config, llm_client, stats, server>>

----------------------------------------------------------------------------
(* The engine serving well-formed events of two users *)

Init == Construct({ConfigMain})

Next == ProcessInteraction \/ SaveUserResponse

Spec == Init /\ [][Next]_vars

----------------------------------------------------------------------------
(* The engine given malformed arguments and malformed conditions *)

ProcessFaulty == ProcessInteractionWith(FaultInputs)

ResetFaulty == ResetUserSession({FaultUser})

\* one call of clear_all_sessions
ClearAllSessions ==
    /\ LET r == clear_all_sessions(user_sessions)
       IN  /\ user_sessions' = r.user_sessions
           /\ result' = r.result
           /\ call' = [op |-> "clear_all_sessions"]
    /\ UNCHANGED <<config, llm_client, stats, server>>

InitFaults == Construct({ConfigMain, ConfigBroken})

NextFaults == ProcessFaulty \/ ResetFaulty \/ ClearAllSessions

SpecFaults == InitFaults /\ [][NextFaults]_vars

----------------------------------------------------------------------------
(* The engine serving one user, queried between the events *)

QueryInputs == {<<FaultUser, e, CtxParty>> : e \in MainEvents}

ProcessQueried == ProcessInteractionWith(QueryInputs)

InitQueries == Construct({ConfigMain})

NextQueries == ProcessQueried \/ SaveUserResponse \/ GetStats \/ ExportSessionData

SpecQueries == InitQueries /\ [][NextQueries]_vars

----------------------------------------------------------------------------
(* SocraticEngine.__init__ on configuration files with keys missing *)

\* A configuration file by the keys the constructors read: whether it has triggers;
\* feature_extraction_specs: "missing", "no_windows" (the object lacks windows) or
\* "windows"; metadata: "missing", "no_cooldown" or "cooldown"; priority_rules:
\* "missing", "no_rules", "no_order" (rules[0] lacks priority_order) or "order".
RawConfig(has_triggers, specs, metadata, priority) ==
    [has_triggers |-> has_triggers, triggers |-> MainTriggers,
     feature_extraction_specs |-> specs,
     metadata |-> metadata, cooldown_period |-> MainCooldown,
     priority_rules |-> priority, priority_order |-> <<"breadth", "depth">>]

RawConfigs ==
    {RawConfig(t, s, m, p) :
        t \in BOOLEAN, s \in {"missing", "no_windows", "windows"},
        m \in {"missing", "no_cooldown", "cooldown"},
        p \in {"missing", "no_rules", "no_order", "order"}}

\* a constructor that reads feature_extraction_specs with defaults,
\* config.get('feature_extraction_specs', {}).get('windows', {})
__init__defaulting_windows(raw, groq_api_key) ==
    IF ~raw.has_triggers
    THEN [raised |-> TRUE, exception |-> "Invalid configuration: missing 'triggers' key"]
    ELSE [raised |-> FALSE,
          config |-> Config(IF raw.metadata = "cooldown" THEN raw.cooldown_period
                            ELSE DefaultCooldown,
                            IF raw.priority_rules = "order" THEN raw.priority_order
                            ELSE DefaultPriorityOrder,
                            raw.triggers),
          llm_client |-> groq_api_key]

\* SocraticEngine.__init__ (with FeatureExtractor.__init__, RuleEvaluator.__init__ and
\* QuestionGenerator.__init__): the exception raised, or what the engine keeps of the
\* configuration and whether it has a client (groq_api_key: a key was given and the
\* client library is there)
__init__(raw, groq_api_key) ==
    IF ~raw.has_triggers
    THEN [raised |-> TRUE, exception |-> "Invalid configuration: missing 'triggers' key"]
    ELSE IF raw.feature_extraction_specs = "missing"
    THEN [raised |-> TRUE, exception |-> "'feature_extraction_specs'"]
    ELSE IF raw.feature_extraction_specs = "no_windows"
    THEN [raised |-> TRUE, exception |-> "'windows'"]
    ELSE [raised |-> FALSE,
          config |-> Config(IF raw.metadata = "cooldown" THEN raw.cooldown_period
                            ELSE DefaultCooldown,
                            IF raw.priority_rules = "order" THEN raw.priority_order
                            ELSE DefaultPriorityOrder,
                            raw.triggers),
          llm_client |-> groq_api_key]

\* before SocraticEngine(config, groq_api_key) is called: no engine
NoEngine ==
    /\ config = NoneDict
    /\ llm_client = FALSE
    /\ user_sessions = EmptyDict
    /\ stats = InitialStats
    /\ call = [op |-> "boot"]
    /\ result = [success |-> TRUE]
    /\ server = IdleServer

\* SocraticEngine(config, groq_api_key): the engine, or the exception and no engine
NewEngine ==
    /\ call.op = "boot"
    /\ \E raw \in RawConfigs, groq_api_key \in BOOLEAN :
          LET r == __init__(raw, groq_api_key)
          IN  /\ call' = [op |-> "__init__", config |-> raw]
              /\ result' = [raised |-> r.raised]
              /\ config' = IF r.raised THEN NoneDict ELSE r.config
              /\ llm_client' = IF r.raised THEN FALSE ELSE r.llm_client
    /\ UNCHANGED <<user_sessions, stats, server>>

\* process_interaction on the engine constructed, if there is one
ProcessConstructed ==
    /\ config # NoneDict
    /\ ProcessInteractionWith(QueryInputs)

InitConstruction == NoEngine

NextConstruction == NewEngine \/ ProcessConstructed

SpecConstruction == InitConstruction /\ [][NextConstruction]_vars

----------------------------------------------------------------------------
(* server.py: on_interaction handlers on the asyncio event loop *)

MaxInbound == 2

\* the external call as an awaitable that yields to the event loop
GenerationSuspendsAtAwait == TRUE

\* whether the event loop runs other handlers while the external call is outstanding:
\* chat.completions.create of the synchronous client is called without await, and
\* awaiting generate and _generate_from_llm, coroutines that never await a future,
\* does not yield to the loop
GenerationSuspends == FALSE

\* the current_context on_interaction builds from the event (no chart_changed key)
ServerContext(data) == Context(data.x_attribute, data.y_attribute, None)

NoFrame == [current_step |-> 0]

\* the handler task of one inbound event; pc: "first", "second": before the
\* process_interaction call of the first, second auto-trigger block of on_interaction;
\* "calling_first", "calling_second": inside the external call of that invocation;
\* answers: whether the external service ever answers that call
Handler(user_id, data) ==
    [user_id |-> user_id, data |-> data, pc |-> "first", frame |-> NoFrame, answers |-> FALSE]

Calling == {"calling_first", "calling_second"}

\* where the handler stands after the invocation it is in has returned
AfterInvocation(pc) == IF pc \in {"first", "calling_first"} THEN "second" ELSE "done"

\* the server after an invocation of handler h returned r: the handler awaits
\* SIO.emit (and yields the loop) if a question was returned, and runs on otherwise
Returned(h, r) ==
    LET pc == AfterInvocation(server.handlers[h].pc)
    IN  [handlers |-> [server.handlers EXCEPT ![h].pc = pc, ![h].frame = NoFrame],
         running |-> IF r.should_ask \/ pc = "done" THEN 0 ELSE h]

\* socket.io starts a handler task for an inbound interaction event
Receive ==
    /\ Len(server.handlers) < MaxInbound
    /\ \E user_id \in Users, data \in MainEvents :
          server' = [server EXCEPT !.handlers = Append(@, Handler(user_id, data))]
    /\ UNCHANGED <<config, llm_client, user_sessions, stats, call, result>>

\* handler h gets or keeps the event loop and calls process_interaction, which
\* returns or reaches the external call
InvokeHandler(h) ==
    LET hd == server.handlers[h]
        current_context == ServerContext(hd.data)
    IN  /\ hd.pc \in {"first", "second"}
        /\ server.running \in {0, h}
        /\ IF WouldCallLlm(config, llm_client, user_sessions, hd.user_id, hd.data,
                           current_context)
           THEN \E answers \in BOOLEAN :
                  LET b == process_interaction_until_call(config, llm_client, user_sessions,
                               stats, hd.user_id, hd.data, current_context)
                  IN  /\ user_sessions' = b.user_sessions
                      /\ stats' = b.stats
                      /\ server' =
                            [handlers |-> [server.handlers EXCEPT
                                              ![h].pc = IF hd.pc = "first" THEN "calling_first"
                                                        ELSE "calling_second",
                                              ![h].frame = b.frame,
                                              ![h].answers = answers],
                             running |-> IF GenerationSuspends THEN 0 ELSE h]
                      /\ UNCHANGED <<call, result>>
           ELSE LET r == process_interaction(config, llm_client, user_sessions, stats,
                                            hd.user_id, hd.data, current_context, "not_called")
                IN  /\ user_sessions' = r.user_sessions
                    /\ stats' = r.stats
                    /\ result' = r.result
                    /\ call' = [op |-> "process_interaction", user_id |-> hd.user_id,
                                interaction |-> hd.data, current_context |-> current_context,
                                llm_outcome |-> "not_called"]
                    /\ server' = Returned(h, r.result)
        /\ UNCHANGED <<config, llm_client>>

Invoke == \E h \in DOMAIN server.handlers : InvokeHandler(h)

\* the external call of handler h ends (if the service answers at all) and
\* process_interaction runs to its return
Respond ==
    /\ \E h \in DOMAIN server.handlers :
        LET hd == server.handlers[h]
        IN  /\ hd.pc \in Calling
            /\ hd.answers
            /\ server.running \in {0, h}
            /\ \E outcome \in LlmOutcomes :
                  LET r == FinishPipeline(llm_client, user_sessions, stats, hd.user_id,
                                          hd.frame, outcome)
                  IN  /\ user_sessions' = r.user_sessions
                      /\ stats' = r.stats
                      /\ result' = r.result
                      /\ call' = [op |-> "process_interaction", user_id |-> hd.user_id,
                                  interaction |-> hd.data,
                                  current_context |-> ServerContext(hd.data),
                                  llm_outcome |-> outcome]
                      /\ server' = Returned(h, r.result)
    /\ UNCHANGED <<config, llm_client>>

InitServer == Construct({ConfigMain})

NextServer == Receive \/ Invoke \/ Respond

SpecServer == InitServer /\ [][NextServer]_vars

\* a call the service answers comes to its end and the invocation runs to its
\* return: the loop is held by that handler (running = h), so nothing else is
\* scheduled before it. No handler is ready to be invoked while a call is
\* outstanding, so fairness to ready handlers would add nothing for an invocation
\* that reached the call.
SpecServerFair == SpecServer /\ WF_vars(Respond)

----------------------------------------------------------------------------
(* RuleEvaluator.evaluate as a function of a condition and a feature set *)

MaxConstraints == 3

MaxEvalHistory == 2

EvInsightNum == Event(None, "save_user_insight", None, None, None, ShortNumText)

\* constraints of every shape evaluate tells apart, one of them (a range on a text
\* feature) type-mismatched
EvalConstraints ==
    {MinC("chart_changes_last_20", 1),
     MaxC("axis_changes_last_10", 1),
     MinMaxC("interaction_count", 1, 3),
     BoolC("rapid_chart_changes", FALSE),
     NumC("insight_count", 1),
     MinC("last_insight", 1)}

\* the detection rules of up to MaxConstraints constraints (a dict: no key twice)
EvalRules ==
    {r \in UNION {[1..n -> EvalConstraints] : n \in 1..MaxConstraints} :
        \A i, j \in DOMAIN r : i # j => r[i].key # r[j].key}

EvalConfigs ==
    {Config(DefaultCooldown, DefaultPriorityOrder,
            <<Category("clarity", 1, <<Condition("candidate", r, "What about {x_attribute}?")>>)>>)
        : r \in EvalRules}

EvalHistories ==
    UNION {[1..n -> {EvChart, EvAxis, EvHover, EvInsightNum}] : n \in 0..MaxEvalHistory}

EvaluateCall ==
    /\ call.op = "init"
    /\ \E h \in EvalHistories :
        /\ call' = [op |-> "evaluate", history |-> h, features |-> extract(h, CtxParty)]
        /\ result' = evaluate(config.triggers, extract(h, CtxParty))
    /\ UNCHANGED <<config, llm_client, user_sessions, stats, server>>

InitEval == Construct(EvalConfigs) /\ llm_client = FALSE

NextEval == EvaluateCall

SpecEval == InitEval /\ [][NextEval]_vars

----------------------------------------------------------------------------
(* RuleEvaluator.evaluate on a configuration with one malformed condition *)

\* constraints whose check raises once the user has saved an insight or, for the
\* axis attribute, at every step: a range on a text (TypeError in the comparison)
\* and a value that is not a list of words on last_insight_contains (TypeError in
\* the iteration)
FaultyConstraints ==
    {MinC("last_insight", 1),
     MaxC("current_x_attribute", 5),
     BoolC("last_insight_contains", TRUE),
     NumC("last_insight_contains", 1)}

\* the malformed constraint alone, and after a well-formed one (the bounds are
\* numbers: _calculate_confidence, run on the conditions that matched, compares the
\* values the check compared and raises nothing)
FaultyRules ==
    {<<c>> : c \in FaultyConstraints}
        \cup {<<MinC("interaction_count", 1), c>> : c \in FaultyConstraints}

Faulty(r) == Condition("faulty", r, "What about {x_attribute}?")

ChartsSeen ==
    Condition("charts_seen", <<MinC("chart_changes_last_20", 1)>>, "Why this chart?")

OneInsight == Condition("one_insight", <<NumC("insight_count", 1)>>, "What follows?")

AxesCalm == Condition("axes_calm", <<MaxC("axis_changes_last_10", 1)>>, "What else?")

\* three categories of well-formed conditions, the malformed one first in the
\* category at place, or the last of all
SiblingTriggers(place, r) ==
    <<Category("clarity", 1,
               IF place = 1 THEN <<Faulty(r), ChartsSeen>> ELSE <<ChartsSeen>>),
      Category("relevance", 2,
               IF place = 2 THEN <<Faulty(r), OneInsight>> ELSE <<OneInsight>>),
      Category("breadth", 6,
               IF place = 3 THEN <<AxesCalm, Faulty(r)>> ELSE <<AxesCalm>>)>>

SiblingConfigs ==
    {Config(DefaultCooldown, DefaultPriorityOrder, SiblingTriggers(place, r))
        : place \in 1..3, r \in FaultyRules}

InitSiblings == Construct(SiblingConfigs) /\ llm_client = FALSE

NextSiblings == EvaluateCall

SpecSiblings == InitSiblings /\ [][NextSiblings]_vars

----------------------------------------------------------------------------
(* FeatureExtractor.extract as a function of a history, called twice *)

MaxExtractHistory == 3

\* an event that carries its type under the third alias, and no attributes
EvFilter == Event(None, None, "filter_applied", None, None, None)

\* events with the type under each of the three aliases; two x_attribute values and
\* events without one
ExtractEvents == {EvChart, EvHover, EvAxis, EvInsightNum, EvFilter}

ExtractHistories == UNION {[1..n -> ExtractEvents] : n \in 0..MaxExtractHistory}

\* the feature set: what the rules read (extract) and the list of attributes, whose
\* order is the iteration order of a set in the process serving the call
ExtractAll(history, current_context, hash_seed) ==
    [features |-> extract(history, current_context),
     unique_attributes_examined |-> _get_unique_attributes(history, hash_seed)]

\* a first call of extract, in a process with one of the seeds
ExtractCall ==
    /\ call.op = "init"
    /\ \E h \in ExtractHistories, hash_seed \in HashSeeds :
        /\ call' = [op |-> "extract", history |-> h, context |-> CtxParty,
                    hash_seed |-> hash_seed, again |-> FALSE]
        /\ result' = ExtractAll(h, CtxParty, hash_seed)
    /\ UNCHANGED <<config, llm_client, user_sessions, stats, server>>

\* the same history and context given to extract once more, in the same process or
\* in another one (a restart, a second worker)
ExtractAgain ==
    /\ call.op = "extract"
    /\ ~call.again
    /\ \E hash_seed \in HashSeeds :
        /\ call' = [call EXCEPT !.hash_seed = hash_seed, !.again = TRUE]
        /\ result' = ExtractAll(call.history, call.context, hash_seed)
    /\ UNCHANGED <<config, llm_client, user_sessions, stats, server>>

InitExtract == Construct({ConfigMain}) /\ llm_client = FALSE

NextExtract == ExtractCall \/ ExtractAgain

SpecExtract == InitExtract /\ [][NextExtract]_vars

----------------------------------------------------------------------------
(* Scenario A: one new user sends chart_type_changed events (quick_trigger_test.py) *)

ScenarioSteps == 30

ScenarioUser == "u1"

RapidSwitching ==
    Condition("rapid_switching", <<BoolC("rapid_chart_changes", TRUE)>>,
              "You changed the chart often. What are you trying to see?")

\* the condition written with a threshold object, {"threshold": 5, "window": 10}
RapidSwitchingThreshold ==
    Condition("rapid_switching", <<DictC("rapid_chart_changes")>>,
              "You changed the chart often. What are you trying to see?")

\* configurations in which chart_type_changed events can match the clarity condition only
ScenarioClarityOnly ==
    {Config(DefaultCooldown, DefaultPriorityOrder, t) : t \in
        {<<Category("clarity", 1, <<RapidSwitching>>)>>,
         <<Category("clarity", 1, <<RapidSwitchingThreshold>>)>>,
         <<Category("clarity", 1, <<RapidSwitching>>),
           Category("relevance", 2, <<InsightSaved>>),
           Category("depth", 5, <<ReflectOnInsight>>)>>}}

\* a configuration in which a breadth condition matches them as well
ScenarioWithBreadth ==
    Config(DefaultCooldown, DefaultPriorityOrder,
           <<Category("clarity", 1, <<RapidSwitching>>),
             Category("breadth", 6, <<StuckOnX>>)>>)

ScenarioConfigs == ScenarioClarityOnly \cup {ScenarioWithBreadth}

ScenarioCharts == <<"scatterplot", "barchart", "linechart">>

\* the i-th call of the loop (i from 0)
ScenarioContext(i) == Context("party", "income", ScenarioCharts[(i % 3) + 1])

ScenarioStep == IF ScenarioUser \in DOMAIN user_sessions
                THEN Len(user_sessions[ScenarioUser].history) ELSE 0

ProcessScenarioA ==
    /\ ScenarioStep < ScenarioSteps
    /\ LET r == process_interaction(config, llm_client, user_sessions, stats, ScenarioUser,
                                    EvChart, ScenarioContext(ScenarioStep), "not_called")
       IN  /\ ~WouldCallLlm(config, llm_client, user_sessions, ScenarioUser, EvChart,
                            ScenarioContext(ScenarioStep))
           /\ user_sessions' = r.user_sessions
           /\ stats' = r.stats
           /\ result' = r.result
           /\ call' = [op |-> "process_interaction", user_id |-> ScenarioUser,
                       interaction |-> EvChart,
                       current_context |-> ScenarioContext(ScenarioStep),
                       llm_outcome |-> "not_called"]
    /\ UNCHANGED <<config, llm_client, server>>

InitScenarioA == Construct(ScenarioConfigs)

NextScenarioA == ProcessScenarioA

SpecScenarioA == InitScenarioA /\ [][NextScenarioA]_vars

----------------------------------------------------------------------------
(* Rule selection as a function of the triggered rules and the features *)

MaxTriggered == 3

RECURSIVE Repeat(_, _)
Repeat(e, n) == IF n = 0 THEN <<>> ELSE <<e>> \o Repeat(e, n - 1)

Rule(category, name, confidence) ==
    [category |-> category, condition_name |-> name, priority |-> 1,
     question_template |-> "What about {x_attribute}?", confidence |-> confidence]

\* triggered rules as evaluate returns them
RulePool ==
    {Rule("depth", "depth_weak", Hundredths(85)),
     Rule("depth", "depth_strong", Hundredths(95)),
     Rule("breadth", "breadth_weak", Hundredths(75)),
     Rule("breadth", "breadth_strong", Hundredths(95)),
     Rule("relevance", "relevance_strong", Hundredths(95)),
     Rule("clarity", "clarity_mid", Hundredths(85))}

TriggeredLists ==
    {l \in UNION {[1..n -> RulePool] : n \in 1..MaxTriggered} :
        \A i, j \in DOMAIN l : i # j => l[i] # l[j]}

\* histories around the thresholds of the boosts: an insight 0, 1, 2, 5 or 6 steps
\* back after 9 or 41 steps on one x attribute (scenario B: saved at step 10, now at
\* step 12), and 3, 29, 30 or 45 steps on one x attribute without any insight
\* (scenario C: 45)
SelectHistories ==
    {Repeat(EvHover, n) \o <<EvInsightShort>> \o Repeat(EvHover, k) :
        n \in {9, 41}, k \in {0, 1, 2, 5, 6}}
      \cup {Repeat(EvHover, n) : n \in {3, 29, 30, 45}}

SelectCall ==
    /\ call.op = "init"
    /\ \E rules \in TriggeredLists, h \in SelectHistories :
        LET features == extract(h, CtxParty)
        IN  /\ call' = [op |-> "select", triggered_rules |-> rules, features |-> features]
            /\ result' = [selected |-> _select_best_rule(config.priority_order, rules, features)]
    /\ UNCHANGED <<config, llm_client, user_sessions, stats, server>>

\* a configuration whose priority_rules list two of the categories only
ConfigShortOrder == Config(MainCooldown, <<"breadth", "depth">>, MainTriggers)

InitSelect == Construct({ConfigMain, ConfigShortOrder}) /\ llm_client = FALSE

NextSelect == SelectCall

SpecSelect == InitSelect /\ [][NextSelect]_vars

----------------------------------------------------------------------------
(* Claims about the engine serving well-formed events (Spec) *)

IsProcessResult == call.op = "process_interaction"

Asked == IsProcessResult /\ result.should_ask

\* the question log of the user the last call was made for
AskedLog == user_sessions[call.user_id].questionsAsked

\* C1: within one session lifetime the steps of any two questions asked of a user are
\* at least cooldown_period apart, and a question is returned only at a step that is
\* at least cooldown_period after lastQuestionStep (the step of the question before
\* it, or -999).
C1_CooldownBetweenQuestions ==
    /\ \A u \in DOMAIN user_sessions :
         LET log == user_sessions[u].questionsAsked
         IN  \A i, j \in DOMAIN log :
                 i < j => log[j].step - log[i].step >= config.cooldown_period
    /\ Asked =>
         LET n == Len(AskedLog)
             before == IF n >= 2 THEN AskedLog[n - 1].step ELSE InitialLastQuestionStep
         IN  /\ n >= 1
             /\ AskedLog[n].step = result.session_info.total_interactions
             /\ result.session_info.total_interactions
                    = Len(user_sessions[call.user_id].history)
             /\ result.session_info.total_interactions - before >= config.cooldown_period

\* a second question is returned to a user
C1_Witness == Asked /\ Len(AskedLog) >= 2

\* C3: the confidence reported with every question lies in [0.75, 0.99].
C3_ReportedConfidenceInRange ==
    Asked => /\ result.trigger_details.confidence >= Hundredths(75)
             /\ result.trigger_details.confidence <= Hundredths(99)

\* C9: an engine constructed without a client tags every question it returns
\* 'template'.
C9_NoClientOnlyTemplate ==
    (Asked /\ ~llm_client) => result.method = "template"

\* without a client a question is returned for a rule that is no simple case
C9_Witness ==
    /\ Asked /\ ~llm_client
    /\ result.category = "relevance"
    /\ TextLen(_get_last_insight(user_sessions[call.user_id].history)) >= 80

\* C10: when the external call was made and failed, the question is the template
\* rendering and its method tag is 'template-fallback'.
C10_FailedCallTaggedFallback ==
    (Asked /\ call.llm_outcome \in {"raises", "malformed", "timeout"})
        => /\ result.question.origin = "template"
           /\ result.method = "template-fallback"

----------------------------------------------------------------------------
(* Claims about malformed arguments and conditions (SpecFaults) *)

ProcessResultShapes ==
    {{"should_ask", "reason", "steps_until_next"},
     {"should_ask", "reason", "debug"},
     {"should_ask", "reason", "error"},
     {"should_ask", "reason", "question", "category", "method", "template_used",
      "trigger_details", "session_info"}}

\* the session of the call's user after the call, and what the stages make of it
CallSession == user_sessions[call.user_id]
CallFeatures == extract(CallSession.history, call.current_context)
CallTriggered == evaluate(config.triggers, CallFeatures)

\* a stage of the last call raised: the session lookup, the append, or (the cooldown
\* gate being open) the extraction, the evaluation or the generation
StageFailed ==
    \/ call.user_id = UnhashableId
    \/ call.interaction = NoneDict
    \/ /\ ~InCooldown(config, CallSession, Len(CallSession.history))
       /\ \/ CallFeatures.raised
          \/ CallTriggered.raised
          \/ /\ CallTriggered.rules # <<>>
             /\ generate(llm_client,
                         _select_best_rule(config.priority_order, CallTriggered.rules,
                                           CallFeatures),
                         CallFeatures,
                         IF call.llm_outcome = "not_called" THEN "ok"
                         ELSE call.llm_outcome).raised

\* C2: process_interaction returns a well-formed result whatever its arguments, and
\* when a stage fails the result is should_ask = false, reason = 'error' with the
\* message.
C2_NoExceptionEscapes ==
    IsProcessResult =>
        /\ DOMAIN result \in ProcessResultShapes
        /\ result.should_ask \in BOOLEAN
        /\ ~result.should_ask => result.reason \in {"cooldown", "no_trigger", "error"}
        /\ StageFailed =>
              /\ ~result.should_ask
              /\ result.reason = "error"
              /\ "error" \in DOMAIN result

\* a failure of the last stage, the generation, came back as an error result
C2_Witness ==
    /\ IsProcessResult
    /\ result.reason = "error"
    /\ ~CallFeatures.raised /\ ~CallTriggered.raised
    /\ call.user_id # UnhashableId /\ call.interaction # NoneDict

----------------------------------------------------------------------------
(* Claims about RuleEvaluator.evaluate (SpecEval) *)

\* C4: every rule evaluate returns, for any features and any condition of one or more
\* constraints, carries a confidence in [0.75, 0.99].
C4_EvaluatedConfidenceInRange ==
    call.op = "evaluate" =>
        /\ ~result.raised
        /\ \A i \in DOMAIN result.rules :
              /\ result.rules[i].confidence >= Hundredths(75)
              /\ result.rules[i].confidence <= Hundredths(99)

\* a condition of several constraints triggers with some but not all of them strong
C4_Witness ==
    /\ call.op = "evaluate"
    /\ Len(config.triggers[1].conditions[1].detection_rule) >= 2
    /\ result.rules # <<>>
    /\ result.rules[1].confidence > Hundredths(75)
    /\ result.rules[1].confidence < Hundredths(95)

----------------------------------------------------------------------------
(* Claims about scenario A (SpecScenarioA) *)

ScenarioLog == user_sessions[ScenarioUser].questionsAsked

\* C5 as stated: at each of the steps 1 to 19 the result is should_ask = false with
\* reason 'cooldown' or 'no_trigger'.
C5_NoQuestionBeforeStep20 ==
    (IsProcessResult /\ ScenarioStep <= 19) =>
        /\ ~result.should_ask
        /\ result.reason \in {"cooldown", "no_trigger"}

\* C5 as amended: when the clarity condition is the only one the events can match,
\* steps 1 to 4 return 'no_trigger' (the gate of a new session is open), step 5
\* returns the first question, of category clarity, and steps 6 to 19 return
\* 'cooldown'.
C5_FirstQuestionAtStep5 ==
    (IsProcessResult /\ config \in ScenarioClarityOnly) =>
        /\ ScenarioStep \in 1..4 => ~result.should_ask /\ result.reason = "no_trigger"
        /\ ScenarioStep = 5 => /\ result.should_ask
                               /\ result.category = "clarity"
                               /\ Len(ScenarioLog) = 1
        /\ ScenarioStep \in 6..19 => ~result.should_ask /\ result.reason = "cooldown"

\* the fifth event of the scenario is answered with a question
C5_Witness ==
    /\ IsProcessResult /\ config \in ScenarioClarityOnly
    /\ ScenarioStep = 5 /\ result.should_ask

\* C6: after the 30 events of the scenario a question of category clarity has been
\* returned.
C6_ClarityWithin30Events ==
    ScenarioStep = ScenarioSteps =>
        \E i \in DOMAIN ScenarioLog :
            ScenarioLog[i].category = "clarity" /\ ScenarioLog[i].step <= ScenarioSteps

\* the clarity question is returned although another question came first
C6_Witness ==
    /\ Asked /\ result.category = "clarity"
    /\ Len(ScenarioLog) = 2 /\ ScenarioLog[1].category = "breadth"

----------------------------------------------------------------------------
(* Claims about rule selection (SpecSelect) *)

IsSelect == call.op = "select"

HasCategory(rules, cats) == \E i \in DOMAIN rules : rules[i].category \in cats

\* C7: with an insight in the history, the last one 1 to 5 steps back, and a depth or
\* breadth rule triggered, the selector returns a depth or breadth rule of maximal
\* confidence among those, unchanged: the depth rule when no breadth rule triggered,
\* also when a rule of a category of higher priority triggered.
C7_PostInsightSelectsDepthBreadth ==
    (/\ IsSelect
     /\ call.features.insight_count > 0
     /\ call.features.steps_since_last_insight \in 1..5
     /\ HasCategory(call.triggered_rules, {"depth", "breadth"}))
    => /\ result.selected \in Range(call.triggered_rules)
       /\ result.selected.category \in {"depth", "breadth"}
       /\ \A i \in DOMAIN call.triggered_rules :
             call.triggered_rules[i].category \in {"depth", "breadth"}
                 => call.triggered_rules[i].confidence <= result.selected.confidence
       /\ ~HasCategory(call.triggered_rules, {"breadth"})
             => result.selected.category = "depth"

\* scenario B: the insight saved at step 10, the selection at step 12, a relevance
\* rule listed before the depth rule
C7_Witness ==
    /\ IsSelect
    /\ call.features.interaction_count = 12
    /\ call.features.steps_since_last_insight = 2
    /\ Len(call.triggered_rules) = 2
    /\ call.triggered_rules[1].category = "relevance"
    /\ call.triggered_rules[2].category = "depth"
    /\ result.selected.category = "depth"

\* C8: with the same x attribute held for more than 40 steps, a breadth rule triggered
\* and the post-insight boost not applying, the selector returns the breadth rule (the
\* first one listed), whatever else triggered.
C8_StuckSelectsBreadth ==
    (/\ IsSelect
     /\ call.features.same_x_attribute_last_n_steps > 40
     /\ HasCategory(call.triggered_rules, {"breadth"})
     /\ ~(call.features.insight_count > 0 /\ call.features.steps_since_last_insight \in 1..5))
    => /\ result.selected.category = "breadth"
       /\ result.selected.condition_name
             = FirstOfCategory(call.triggered_rules, "breadth").condition_name

\* scenario C: 45 steps on one x attribute, a relevance rule listed before the breadth
\* rule
C8_Witness ==
    /\ IsSelect
    /\ call.features.same_x_attribute_last_n_steps = 45
    /\ Len(call.triggered_rules) = 2
    /\ call.triggered_rules[1].category = "relevance"
    /\ call.triggered_rules[2].category = "breadth"
    /\ result.selected.category = "breadth"

----------------------------------------------------------------------------
(* Claims about the sessions of different users (Spec) *)

\* the sessions dict holding the session of user_id alone, if it has one
OnlyUser(sessions, user_id) == [u \in DOMAIN sessions \cap {user_id} |-> sessions[u]]

\* C14: a process_interaction or save_user_response call for one user leaves the
\* session of every other user as it was, and the result of a process_interaction
\* call is the one the engine returns when the user's session is the only one there
\* is: the decisions for a user do not depend on how the calls for other users are
\* interleaved with theirs.
C14_UsersIndependent ==
    [][call'.op \in {"process_interaction", "save_user_response"} =>
         /\ \A u \in DOMAIN user_sessions :
                u # call'.user_id =>
                    u \in DOMAIN user_sessions' /\ user_sessions'[u] = user_sessions[u]
         /\ call'.op = "process_interaction" =>
                result' = process_interaction(config, llm_client,
                                              OnlyUser(user_sessions, call'.user_id),
                                              InitialStats, call'.user_id,
                                              call'.interaction, call'.current_context,
                                              call'.llm_outcome).result]_vars

\* a user is asked a question while another user has a session with a question of
\* their own
C14_Witness ==
    /\ Asked
    /\ \E u \in DOMAIN user_sessions :
          u # call.user_id /\ Len(user_sessions[u].questionsAsked) >= 1

----------------------------------------------------------------------------
(* Claims about the read-only operations (SpecQueries) *)

C17_ExportReportsSessionExactly ==
    [][call'.op = "export_session_data" =>
         /\ stats' = stats
         /\ user_sessions' = user_sessions
         /\ IF call'.user_id \in DOMAIN user_sessions
            THEN /\ result'.totalInteractions = Len(user_sessions[call'.user_id].history)
                 /\ result'.questionsAsked = Len(user_sessions[call'.user_id].questionsAsked)
            ELSE result' = NoneDict]_vars

\* the export of a session that holds events, a response and a question
C17_Witness ==
    /\ call.op = "export_session_data"
    /\ call.user_id \in DOMAIN user_sessions
    /\ result.questionsAsked >= 1
    /\ result.totalInteractions >= 3
    /\ \E i \in DOMAIN result.history : result.history[i] = ResponseEntry

----------------------------------------------------------------------------
(* Claims about save_user_response and the history (Spec) *)

\* C18: save_user_response for a user with a session appends one response event to
\* the end of the history, writes the response text (the one the calls of the model
\* pass) into the last entry of the question log and into no other, and returns
\* success = true with the new history length; for a user without a session it
\* returns success = false and changes no state.
C18_SaveUserResponseEffect ==
    [][call'.op = "save_user_response" =>
         IF call'.user_id \in DOMAIN user_sessions
         THEN LET old == user_sessions[call'.user_id]
                  new == user_sessions'[call'.user_id]
                  n == Len(old.questionsAsked)
              IN  /\ new.history = Append(old.history, ResponseEntry)
                  /\ new.lastQuestionStep = old.lastQuestionStep
                  /\ Len(new.questionsAsked) = n
                  /\ \A i \in 1..n :
                        new.questionsAsked[i] =
                            IF i = n THEN [old.questionsAsked[i] EXCEPT !.response = ShortText]
                            ELSE old.questionsAsked[i]
                  /\ result' = [success |-> TRUE, session_length |-> Len(old.history) + 1]
                  /\ DOMAIN user_sessions' = DOMAIN user_sessions
         ELSE /\ user_sessions' = user_sessions
              /\ stats' = stats
              /\ result'.success = FALSE]_vars

\* a response is saved for a user who was asked two questions, the first one
\* unanswered
C18_Witness ==
    /\ call.op = "save_user_response"
    /\ result.success
    /\ LET log == user_sessions[call.user_id].questionsAsked
       IN  /\ Len(log) = 2
           /\ log[1].response = None
           /\ log[2].response = ShortText

\* C19: extract(H, C).interaction_count = len(H) for the history H of every session
\* and every context C, and the interaction_count in the debug field of a no_trigger
\* result is the step of the session, the length of its history.
C19_InteractionCountIsHistoryLength ==
    /\ \A u \in DOMAIN user_sessions :
          \A c \in {CtxParty, Context(None, None, None), Context("", "", "unknown")} :
              extract(user_sessions[u].history, c).interaction_count
                  = Len(user_sessions[u].history)
    /\ (IsProcessResult /\ ~result.should_ask /\ result.reason = "no_trigger")
          => result.debug.interaction_count = Len(user_sessions[call.user_id].history)

\* a no_trigger result, while the session of another user holds events, an insight
\* and a response
C19_Witness ==
    /\ IsProcessResult /\ ~result.should_ask /\ result.reason = "no_trigger"
    /\ result.debug.interaction_count >= 1
    /\ \E u \in DOMAIN user_sessions :
          /\ Len(user_sessions[u].history) >= 3
          /\ ResponseEntry \in Range(user_sessions[u].history)
          /\ EvInsightLong \in Range(user_sessions[u].history)

\* s is t or the beginning of t
IsPrefix(s, t) == Len(s) <= Len(t) /\ SubSeq(t, 1, Len(s)) = s

\* C20: within a session lifetime every step leaves the history a session had as a
\* prefix of the history it has afterwards, and a process_interaction call that does
\* not end in an error adds exactly one entry, the event, at the end of the history
\* of its user (of an empty history for a new user).
C20_HistoryAppendOnly ==
    [][/\ \A u \in DOMAIN user_sessions :
             /\ u \in DOMAIN user_sessions'
             /\ IsPrefix(user_sessions[u].history, user_sessions'[u].history)
       /\ (call'.op = "process_interaction" /\ (result'.should_ask \/ result'.reason # "error"))
             => user_sessions'[call'.user_id].history
                  = Append(IF call'.user_id \in DOMAIN user_sessions
                           THEN user_sessions[call'.user_id].history ELSE <<>>,
                           call'.interaction)]_vars

\* an event is appended to a history of four entries that holds a response
C20_Witness ==
    /\ IsProcessResult
    /\ Len(user_sessions[call.user_id].history) = 5
    /\ user_sessions[call.user_id].history[5] = call.interaction
    /\ ResponseEntry \in Range(user_sessions[call.user_id].history)

----------------------------------------------------------------------------
(* Claims about the server's handlers (SpecServer, SpecServerFair) *)

\* the process_interaction invocations handler hd has made so far
Invocations(hd) ==
    CASE hd.pc = "first" -> 0
      [] hd.pc \in {"calling_first", "second"} -> 1
      [] OTHER -> 2

RECURSIVE SumOver(_, _, _)
SumOver(handlers, user_id, i) ==
    IF i = 0 THEN 0
    ELSE (IF handlers[i].user_id = user_id THEN Invocations(handlers[i]) ELSE 0)
           + SumOver(handlers, user_id, i - 1)

\* the invocations made for the user
InvocationsFor(user_id) == SumOver(server.handlers, user_id, Len(server.handlers))

\* the inbound events of the user
InboundFor(user_id) ==
    Cardinality({h \in DOMAIN server.handlers : server.handlers[h].user_id = user_id})

HistoryLengthOf(user_id) ==
    IF user_id \in DOMAIN user_sessions THEN Len(user_sessions[user_id].history) ELSE 0

C12_OtherUsersNotBlocked ==
    \A i, j \in DOMAIN server.handlers :
        (/\ server.handlers[i].pc \in Calling
         /\ server.handlers[j].pc = "first"
         /\ server.handlers[j].user_id # server.handlers[i].user_id)
        => ENABLED InvokeHandler(j)

\* C13: with the handlers of one user overlapping as the event loop schedules them,
\* the history of every user holds one entry per invocation made for the user, and
\* the questions returned to a user are at least cooldown_period steps apart.
C13_OverlappingHandlersSerialized ==
    /\ \A u \in Users : HistoryLengthOf(u) = InvocationsFor(u)
    /\ \A u \in DOMAIN user_sessions :
          LET log == user_sessions[u].questionsAsked
          IN  \A i, j \in DOMAIN log :
                  i < j => log[j].step - log[i].step >= config.cooldown_period

\* two handlers of one user overlap: one is suspended between its two invocations,
\* after a question was returned to it, and the other has made its first invocation
\* in the meantime and is about to make its second
C13_Witness ==
    \E i, j \in DOMAIN server.handlers :
        /\ i # j
        /\ server.handlers[i].user_id = server.handlers[j].user_id
        /\ server.handlers[i].pc = "second"
        /\ server.handlers[j].pc = "second"
        /\ server.running = j
        /\ Len(user_sessions[server.handlers[i].user_id].questionsAsked) >= 1

\* C15: once the handlers of a user's inbound events are through, the user's step
\* (history length) is the number of those events: one invocation per event.
C15_OneInvocationPerEvent ==
    \A u \in Users :
        (\A h \in DOMAIN server.handlers :
            server.handlers[h].user_id = u => server.handlers[h].pc = "done")
        => HistoryLengthOf(u) = InboundFor(u)

----------------------------------------------------------------------------
(* Claims about the cooldown state of a session (Spec) *)

LastQuestionStepOf(sessions, u) == sessions[u].lastQuestionStep

\* the call just made returned a question to user u at the step the history now has
AskedNow(u) ==
    /\ call'.op = "process_interaction"
    /\ call'.user_id = u
    /\ result'.should_ask
    /\ LastQuestionStepOf(user_sessions', u) = Len(user_sessions'[u].history)

\* C21: over every process_interaction and save_user_response call a session's
\* lastQuestionStep never decreases; a new session holds -999 before its first
\* question; the value changes only in a call that returns a question to that user,
\* and is then the current step.
C21_LastQuestionStepMonotone ==
    [][\A u \in DOMAIN user_sessions' :
          IF u \in DOMAIN user_sessions
          THEN /\ LastQuestionStepOf(user_sessions', u) >= LastQuestionStepOf(user_sessions, u)
               /\ LastQuestionStepOf(user_sessions', u) # LastQuestionStepOf(user_sessions, u)
                     => AskedNow(u)
          ELSE \/ LastQuestionStepOf(user_sessions', u) = -999
               \/ AskedNow(u)]_vars

\* a session whose lastQuestionStep moved twice: two questions, the second at a later
\* step, and a response saved since
C21_Witness ==
    \E u \in DOMAIN user_sessions :
        /\ Len(user_sessions[u].questionsAsked) >= 2
        /\ user_sessions[u].lastQuestionStep = user_sessions[u].questionsAsked[2].step
        /\ user_sessions[u].questionsAsked[1].step < user_sessions[u].lastQuestionStep
        /\ user_sessions[u].history[Len(user_sessions[u].history)] = ResponseEntry

----------------------------------------------------------------------------
(* Claims about construction (SpecConstruction) *)

\* C22: construction raises exactly when triggers or feature_extraction_specs (or its
\* windows) is missing, and then there is no engine and nothing is ever processed;
\* with both there, a missing metadata, cooldown_period, priority_rules, rules or
\* priority_order gives the engine cooldown 20 and the default priority order, and a
\* given one is kept.
C22_ConstructionRefusesMissingKeys ==
    /\ config = NoneDict => user_sessions = EmptyDict /\ stats = InitialStats
    /\ call.op = "__init__" =>
          IF ~call.config.has_triggers \/ call.config.feature_extraction_specs # "windows"
          THEN result.raised /\ config = NoneDict
          ELSE /\ ~result.raised
               /\ config.triggers = call.config.triggers
               /\ config.cooldown_period =
                     (IF call.config.metadata = "cooldown"
                      THEN call.config.cooldown_period ELSE 20)
               /\ config.priority_order =
                     (IF call.config.priority_rules = "order"
                      THEN call.config.priority_order
                      ELSE <<"clarity", "relevance", "accuracy", "precision", "depth",
                             "breadth">>)

\* construction refused a file that has triggers and lacks feature_extraction_specs
C22_Witness ==
    /\ call.op = "__init__"
    /\ call.config.has_triggers
    /\ call.config.feature_extraction_specs = "missing"
    /\ call.config.metadata = "missing"
    /\ result.raised

----------------------------------------------------------------------------
(* Claims about the results without a question (SpecFaults) *)

\* the session of the user of the call just made, as it was before the call
SessionBefore ==
    IF call'.user_id \in DOMAIN user_sessions
    THEN user_sessions[call'.user_id]
    ELSE [userId |-> call'.user_id, history |-> <<>>, lastQuestionStep |-> -999,
          questionsAsked |-> <<>>]

\* C23: a process_interaction call that returns reason cooldown or no_trigger leaves
\* the user's session as it was but for the event appended to the history
\* (lastQuestionStep and the question log as before) and counts one cooldown block
\* or one no-trigger event; and a call made within cooldown_period steps of the last
\* question returns cooldown whatever the context and the rules are: features, rules
\* and generation are not reached.
C23_NoQuestionLeavesSession ==
    [][call'.op = "process_interaction" /\ call'.user_id \in Users
          /\ call'.interaction # NoneDict =>
         /\ result'.reason \in {"cooldown", "no_trigger"} =>
               /\ ~result'.should_ask
               /\ user_sessions'[call'.user_id] =
                     [SessionBefore EXCEPT !.history = Append(@, call'.interaction)]
               /\ stats' = [stats EXCEPT
                               !.total_interactions_processed = @ + 1,
                               !.cooldown_blocks =
                                   IF result'.reason = "cooldown" THEN @ + 1 ELSE @,
                               !.no_trigger_events =
                                   IF result'.reason = "no_trigger" THEN @ + 1 ELSE @]
         /\ (Len(SessionBefore.history) + 1) - SessionBefore.lastQuestionStep
                 < config.cooldown_period
               => result'.reason = "cooldown"]_vars

\* a call in the cooldown whose context is None (extraction would raise) returned
\* cooldown, and before it a call returned no_trigger
C23_Witness ==
    /\ call.op = "process_interaction"
    /\ call.current_context = NoneDict
    /\ result.reason = "cooldown"
    /\ stats.no_trigger_events >= 1
    /\ Len(user_sessions[call.user_id].questionsAsked) = 1

----------------------------------------------------------------------------
(* Claims about the result with a question (Spec) *)

CountOf(d, k) == IF k \in DOMAIN d THEN d[k] ELSE 0

\* C24: a process_interaction call that returns should_ask = true at step s (the
\* length of the history with the event appended) leaves lastQuestionStep = s and the
\* question log longer by exactly one entry, which holds step s and the category and
\* condition name of the selected rule (the one the result reports);
\* questions_triggered and that category's count in questions_by_category are up by
\* one, the other counts as before.
C24_QuestionRecorded ==
    [][call'.op = "process_interaction" /\ result'.should_ask =>
         LET u == call'.user_id
             before == IF u \in DOMAIN user_sessions THEN user_sessions[u].questionsAsked
                       ELSE <<>>
             after == user_sessions'[u]
             s == Len(after.history)
             entry == after.questionsAsked[Len(after.questionsAsked)]
         IN  /\ after.lastQuestionStep = s
             /\ Len(after.questionsAsked) = Len(before) + 1
             /\ SubSeq(after.questionsAsked, 1, Len(before)) = before
             /\ entry.step = s
             /\ entry.category = result'.category
             /\ entry.condition = result'.trigger_details.condition_name
             /\ stats'.questions_triggered = stats.questions_triggered + 1
             /\ \A c \in DOMAIN stats'.questions_by_category \cup {result'.category} :
                   CountOf(stats'.questions_by_category, c) =
                       CountOf(stats.questions_by_category, c)
                           + (IF c = result'.category THEN 1 ELSE 0)]_vars

\* the second question of a category was just returned
C24_Witness ==
    /\ call.op = "process_interaction"
    /\ result.should_ask
    /\ CountOf(stats.questions_by_category, result.category) = 2
    /\ Len(user_sessions[call.user_id].questionsAsked) = 2

----------------------------------------------------------------------------
(* Claims about the rule the selector returns (SpecSelect) *)

\* the rule is the i-th triggered rule, as it is or with its confidence raised by a boost
IsTriggeredRule(rule, i) ==
    /\ [rule EXCEPT !.confidence = 0] = [call.triggered_rules[i] EXCEPT !.confidence = 0]
    /\ rule.confidence \in {call.triggered_rules[i].confidence,
                             (call.triggered_rules[i].confidence * 6) \div 5}

\* C25: for a non-empty list of triggered rules the selector returns one rule, and it
\* is one of the triggered rules: its condition name is among the names of the list.
C25_SelectedIsTriggered ==
    IsSelect =>
        /\ Len(call.triggered_rules) >= 1
        /\ \E i \in DOMAIN call.triggered_rules : IsTriggeredRule(result.selected, i)
        /\ result.selected.condition_name \in
              {call.triggered_rules[i].condition_name : i \in DOMAIN call.triggered_rules}

\* three rules triggered and a boost returned the last of them with its confidence raised
C25_Witness ==
    /\ IsSelect
    /\ Len(call.triggered_rules) = 3
    /\ result.selected.condition_name = call.triggered_rules[3].condition_name
    /\ result.selected.confidence > call.triggered_rules[3].confidence


\* the feature condition of each boost holds and a rule of its category triggered
PostInsightApplies ==
    /\ call.features.insight_count > 0
    /\ call.features.steps_since_last_insight \in 1..5
    /\ HasCategory(call.triggered_rules, {"depth", "breadth"})

StuckApplies ==
    /\ call.features.same_x_attribute_last_n_steps > 40
    /\ HasCategory(call.triggered_rules, {"breadth"})

EarlyApplies ==
    /\ call.features.interaction_count < 30
    /\ call.features.insight_count = 0
    /\ HasCategory(call.triggered_rules, {"clarity"})

\* the rule is the first triggered rule of the category with its confidence times 1.2
IsBoostedFirstOf(rule, category) ==
    LET first == FirstOfCategory(call.triggered_rules, category)
    IN  rule = [first EXCEPT !.confidence = (first.confidence * 6) \div 5]

\* the position of the rule's category in the priority order (after all if not listed)
PriorityIndex(rule) ==
    IF \E i \in DOMAIN config.priority_order : config.priority_order[i] = rule.category
    THEN CHOOSE i \in DOMAIN config.priority_order : config.priority_order[i] = rule.category
    ELSE Len(config.priority_order) + 1

\* C26: the boosts are tried in the order post-insight, stuck-on-attribute,
\* early-exploration, and the first that applies decides: post-insight returns a
\* depth or breadth rule of maximal confidence, not multiplied (also when
\* stuck-on-attribute applies too); otherwise stuck-on-attribute returns the first
\* breadth rule times 1.2; otherwise early-exploration returns the first clarity rule
\* times 1.2; the category-priority fallback (an unchanged triggered rule of the best
\* ranked category) is used only when no boost applies.
C26_BoostPrecedence ==
    IsSelect =>
        IF PostInsightApplies
        THEN /\ result.selected \in Range(call.triggered_rules)
             /\ result.selected.category \in {"depth", "breadth"}
             /\ \A i \in DOMAIN call.triggered_rules :
                   call.triggered_rules[i].category \in {"depth", "breadth"}
                       => call.triggered_rules[i].confidence <= result.selected.confidence
        ELSE IF StuckApplies THEN IsBoostedFirstOf(result.selected, "breadth")
        ELSE IF EarlyApplies THEN IsBoostedFirstOf(result.selected, "clarity")
        ELSE /\ result.selected \in Range(call.triggered_rules)
             /\ \A i \in DOMAIN call.triggered_rules :
                   PriorityIndex(result.selected) <= PriorityIndex(call.triggered_rules[i])

\* post-insight and stuck-on-attribute both apply, a breadth rule is listed first and
\* the depth rule of higher confidence is returned as it is
C26_Witness ==
    /\ IsSelect
    /\ PostInsightApplies
    /\ StuckApplies
    /\ call.triggered_rules[1].category = "breadth"
    /\ result.selected.category = "depth"
    /\ result.selected \in Range(call.triggered_rules)


\* C27: when no boost applies, the selector returns a triggered rule, unchanged, such
\* that no triggered rule has a category earlier in priority_order (the categories the
\* list lacks rank after the listed ones, equal among themselves) and none of an
\* equally ranked category has a higher confidence.
C27_FallbackByPriorityThenConfidence ==
    IsSelect /\ ~PostInsightApplies /\ ~StuckApplies /\ ~EarlyApplies =>
        /\ result.selected \in Range(call.triggered_rules)
        /\ \A i \in DOMAIN call.triggered_rules :
              \/ PriorityIndex(result.selected) < PriorityIndex(call.triggered_rules[i])
              \/ /\ PriorityIndex(result.selected) = PriorityIndex(call.triggered_rules[i])
                 /\ result.selected.confidence >= call.triggered_rules[i].confidence

\* the list lacks clarity and relevance, a clarity rule, a relevance rule of higher
\* confidence and a clarity rule triggered, no boost applies, and the relevance rule
\* is returned
C27_Witness ==
    /\ IsSelect
    /\ ~PostInsightApplies /\ ~StuckApplies /\ ~EarlyApplies
    /\ config.priority_order = <<"breadth", "depth">>
    /\ Len(call.triggered_rules) = 2
    /\ call.triggered_rules[1].category = "clarity"
    /\ call.triggered_rules[2].category = "relevance"
    /\ result.selected = call.triggered_rules[2]

----------------------------------------------------------------------------
(* Claims about the constraints of a condition (SpecEval) *)

\* the detection rule of the one condition of the configuration
CandidateRule == config.triggers[1].conditions[1].detection_rule

\* what the constraint grammar says of one constraint: a range holds when the value is
\* there, is a number and lies within the bounds given, a value constraint when the
\* feature equals it
ConstraintHolds(c, f) ==
    IF c.kind = "range"
    THEN /\ c.key \in DOMAIN f
         /\ c.key \in IntFeatures \cup BoolFeatures
         /\ ~(c.key \in IntFeatures /\ f[c.key] = NoneInt)
         /\ c.has_min => NumOf(f, c.key) >= c.min
         /\ c.has_max => NumOf(f, c.key) <= c.max
    ELSE IF c.kind = "bool" THEN f[c.key] = c.bval
    ELSE f[c.key] = c.nval

\* C28: the condition triggers if and only if every one of its constraints holds; a
\* {min, max} constraint holds exactly when the feature has a value within the
\* inclusive bounds, a bound not given not limiting it (for the keys that are features;
\* the named special keys are a row of their own in the constraint grammar).
C28_TriggersIffAllConstraintsHold ==
    call.op = "evaluate" =>
        /\ ~result.raised
        /\ result.rules # <<>>
              <=> \A i \in DOMAIN CandidateRule : ConstraintHolds(CandidateRule[i], call.features)

\* a condition of three constraints triggered with two values on their bounds
C28_Witness ==
    /\ call.op = "evaluate"
    /\ Len(CandidateRule) = 3
    /\ \E i, j \in DOMAIN CandidateRule :
          /\ CandidateRule[i] = MinC("chart_changes_last_20", 1)
          /\ CandidateRule[j] = MaxC("axis_changes_last_10", 1)
    /\ call.features.chart_changes_last_20 = 1
    /\ call.features.axis_changes_last_10 = 1
    /\ result.rules # <<>>


\* a strong match as described: a range constraint whose value exceeds min * 1.5 or is
\* below max * 0.75 (a value of 0 included), and every constraint that is not a range
StrongAsDescribed(c, f) ==
    IF c.kind = "range"
    THEN /\ c.key \in DOMAIN f
         /\ c.key \in IntFeatures \cup BoolFeatures
         /\ ~(c.key \in IntFeatures /\ f[c.key] = NoneInt)
         /\ \/ c.has_min /\ 2 * NumOf(f, c.key) > 3 * c.min
            \/ c.has_max /\ 4 * NumOf(f, c.key) < 3 * c.max
    ELSE TRUE

\* C29: the confidence of a triggered condition of n >= 1 constraints is
\* min(0.75 + 0.2 * strong / n, 0.99), strong counting the range constraints whose
\* value exceeds min * 1.5 or is below max * 0.75 (0 included) and all the others.
C29_ConfidenceFormula ==
    call.op = "evaluate" /\ ~result.raised /\ result.rules # <<>> =>
        LET n == Len(CandidateRule)
            strong == Cardinality({i \in DOMAIN CandidateRule :
                                      StrongAsDescribed(CandidateRule[i], call.features)})
            score == Hundredths(75) + (Hundredths(20) * strong) \div n
        IN  result.rules[1].confidence
                = (IF score <= Hundredths(99) THEN score ELSE Hundredths(99))

----------------------------------------------------------------------------
(* Claims about a condition whose constraint raises (SpecSiblings) *)

\* a constraint of the malformed condition raises on these features, the ones before
\* it holding
ConstraintError(triggers, f) ==
    \E e \in Range(AllConditions(triggers)) :
        /\ e.condition.name = "faulty"
        /\ \E i \in DOMAIN e.condition.detection_rule :
              /\ _check_single_constraint(e.condition.detection_rule[i].key,
                                          e.condition.detection_rule[i], f).raised
              /\ \A j \in 1..(i - 1) :
                    _check_single_constraint(e.condition.detection_rule[j].key,
                                             e.condition.detection_rule[j], f).ok

\* the well-formed conditions whose constraints all hold, in the order of the file
MatchingSiblings(triggers, f) ==
    SelectSeq(AllConditions(triggers),
              LAMBDA e : /\ e.condition.name # "faulty"
                         /\ \A i \in DOMAIN e.condition.detection_rule :
                               ConstraintHolds(e.condition.detection_rule[i], f))

\* C30: when a constraint of one condition raises, evaluate does not raise, leaves
\* that condition out, and returns every other condition that matches, of every
\* category, in the order of the configuration.
C30_ErrorDowngradesOneCondition ==
    call.op = "evaluate" /\ ConstraintError(config.triggers, call.features) =>
        /\ ~result.raised
        /\ LET expected == MatchingSiblings(config.triggers, call.features)
           IN  /\ Len(result.rules) = Len(expected)
               /\ \A i \in DOMAIN expected :
                     /\ result.rules[i].category = expected[i].category
                     /\ result.rules[i].condition_name = expected[i].condition.name

\* the first condition of the first category raised after its first constraint held,
\* and the three siblings, one of its category and two of later ones, are returned
C30_Witness ==
    /\ call.op = "evaluate"
    /\ config.triggers[1].conditions[1].name = "faulty"
    /\ Len(config.triggers[1].conditions[1].detection_rule) = 2
    /\ ConstraintError(config.triggers, call.features)
    /\ ~result.raised
    /\ [i \in DOMAIN result.rules |-> result.rules[i].condition_name]
          = <<"charts_seen", "one_insight", "axes_calm">>

----------------------------------------------------------------------------
(* Claims about the features of a history (SpecExtract) *)

\* the features that count events
CountFeatures == IntFeatures \ {"steps_since_last_insight", "last_insight_length"}

\* C31: for the empty history extract does not raise, every count feature is 0, every
\* boolean feature is false and the optional text and list features are null or empty.
C31_EmptyHistoryDegrades ==
    call.op = "extract" /\ call.history = <<>> =>
        /\ ~result.features.raised
        /\ \A k \in CountFeatures : result.features[k] = 0
        /\ \A k \in BoolFeatures : result.features[k] = FALSE
        /\ result.features.last_insight = None
        /\ result.features.last_insight_length = 0
        /\ result.features.recent_actions = <<>>
        /\ result.unique_attributes_examined = <<>>

\* the run the scan is described to count: of the events that have the field, those
\* from which on every event that has it carries the value of the most recent one
TrailingRun(history, field) ==
    LET having == {i \in DOMAIN history : history[i][field] # None}
    IN  IF having = {} THEN {}
        ELSE LET last == CHOOSE i \in having : \A j \in having : j <= i
             IN  {i \in having :
                     \A j \in having : j >= i => history[j][field] = history[last][field]}

\* C32: the consecutive-same-value feature of a field is the number of events, from
\* the most recent backward, with the value of the most recent event that has the
\* field, up to the first event with another value; events without the field are
\* neither counted nor a break; it is 0 when no event has the field.
C32_ConsecutiveSame ==
    call.op = "extract" =>
        /\ result.features.same_x_attribute_last_n_steps
              = Cardinality(TrailingRun(call.history, "x_attribute"))
        /\ result.features.consecutive_same_axis
              = Cardinality(TrailingRun(call.history, "x_attribute"))
        /\ result.features.same_y_attribute_last_n_steps
              = Cardinality(TrailingRun(call.history, "y_attribute"))

\* an event without the field between two events of the same value: both are counted
C32_Witness ==
    /\ call.op = "extract"
    /\ call.history = <<EvChart, EvInsightNum, EvHover>>
    /\ result.features.same_x_attribute_last_n_steps = 2

\* C33: every reader of an event's type resolves the three alias fields alike: the
\* type recent_actions lists for an event is the type the counting features, the
\* steps-since features and diverse_interactions see for it.
C33_AliasesResolvedAlike ==
    call.op = "extract" =>
        LET recent_5 == LastN(call.history, 5)
        IN  \A i \in DOMAIN recent_5 :
                result.features.recent_actions[i] = interaction_type_of(recent_5[i])

\* C34: extract is a deterministic pure function: a second call with the history and
\* context of the first returns the same feature set, the order of the list of
\* attributes included, and no call changes the engine's state.
C34_ExtractDeterministic ==
    [][call.op = "extract" /\ call'.op = "extract"
          /\ call'.history = call.history /\ call'.context = call.context
        => /\ result' = result
           /\ UNCHANGED <<config, llm_client, user_sessions, stats, server>>]_vars

----------------------------------------------------------------------------
(* Claims about the structure of a session and of the statistics (Spec) *)

\* C35: in every state of a session lastQuestionStep is at most the length of the
\* history; the log of questions is empty exactly when lastQuestionStep is still
\* -999; otherwise lastQuestionStep is the step of the last entry, and the steps of
\* the log increase strictly, consecutive entries at least cooldown_period apart.
C35_SessionStructure ==
    \A u \in DOMAIN user_sessions :
        LET session == user_sessions[u]
            asked == session.questionsAsked
        IN  /\ session.lastQuestionStep <= Len(session.history)
            /\ asked = <<>> <=> session.lastQuestionStep = InitialLastQuestionStep
            /\ asked # <<>> => session.lastQuestionStep = asked[Len(asked)].step
            /\ \A i \in 1..(Len(asked) - 1) :
                  /\ asked[i].step < asked[i + 1].step
                  /\ asked[i + 1].step - asked[i].step >= config.cooldown_period

\* a session with two questions in its log, the second as early as the cooldown
\* allows, and events after it
C35_Witness ==
    \E u \in DOMAIN user_sessions :
        LET session == user_sessions[u]
            asked == session.questionsAsked
        IN  /\ Len(asked) = 2
            /\ asked[2].step - asked[1].step = config.cooldown_period
            /\ session.lastQuestionStep < Len(session.history)

\* the entries still to be appended to the history of the session for the gate to
\* be open at the last of them
StepsUntilOpen(session) ==
    config.cooldown_period - (Len(session.history) - session.lastQuestionStep)

\* C37: the steps_until_next of a cooldown result is cooldown_period - (step -
\* lastQuestionStep) and lies in 1..cooldown_period - 1; every entry appended lowers
\* the number left by one, and an event is blocked exactly while more than one entry
\* is left before it: the last of steps_until_next further entries is the first event
\* the gate lets through.
C37_StepsUntilNext ==
    /\ [](call.op = "process_interaction" /\ result.reason = "cooldown" =>
            /\ result.steps_until_next = StepsUntilOpen(user_sessions[call.user_id])
            /\ result.steps_until_next \in 1..(config.cooldown_period - 1))
    /\ [][call'.op = "process_interaction" /\ call'.user_id \in DOMAIN user_sessions
          => /\ result'.reason = "cooldown"
                 <=> StepsUntilOpen(user_sessions[call'.user_id]) > 1
             /\ result'.reason = "cooldown"
                 => result'.steps_until_next
                        = StepsUntilOpen(user_sessions[call'.user_id]) - 1]_vars

\* an event blocked with one step left: a response to the question was saved before
\* it and counted as a step
C37_Witness ==
    /\ call.op = "process_interaction"
    /\ result.reason = "cooldown"
    /\ result.steps_until_next = 1
    /\ \E i \in DOMAIN user_sessions[call.user_id].history :
          /\ i > user_sessions[call.user_id].lastQuestionStep
          /\ user_sessions[call.user_id].history[i] = ResponseEntry

\* C40: save_user_response produces no question and changes neither lastQuestionStep
\* nor a statistics counter, and the response it appends is a step: a response saved
\* in a cooldown leaves one process_interaction call less to make before the gate
\* opens, and the call after it is blocked exactly when more than one step was left.
C40_ResponseCountsAsStep ==
    /\ [][call'.op = "save_user_response" =>
            /\ stats' = stats
            /\ "should_ask" \notin DOMAIN result'
            /\ IF call'.user_id \in DOMAIN user_sessions
               THEN LET before == user_sessions[call'.user_id]
                        after == user_sessions'[call'.user_id]
                    IN  /\ after.lastQuestionStep = before.lastQuestionStep
                        /\ Len(after.questionsAsked) = Len(before.questionsAsked)
                        /\ after.history = Append(before.history, ResponseEntry)
                        /\ StepsUntilOpen(after) = StepsUntilOpen(before) - 1
               ELSE user_sessions' = user_sessions]_vars
    /\ [][/\ call.op = "save_user_response"
          /\ call'.op = "process_interaction"
          /\ call'.user_id = call.user_id
          /\ call'.user_id \in DOMAIN user_sessions
          => (result'.reason = "cooldown"
                <=> StepsUntilOpen(user_sessions[call'.user_id]) > 1)]_vars

\* a second question asked cooldown_period steps after the first, one of the steps
\* between them a saved response: one process_interaction call less was needed
C40_Witness ==
    /\ call.op = "process_interaction"
    /\ result.should_ask
    /\ LET session == user_sessions[call.user_id]
           asked == session.questionsAsked
       IN  /\ Len(asked) = 2
           /\ asked[2].step - asked[1].step = config.cooldown_period
           /\ \E i \in (asked[1].step + 1)..(asked[2].step - 1) :
                 session.history[i] = ResponseEntry

----------------------------------------------------------------------------
(* Claims about the statistics and the sessions under failures and resets
   (SpecFaults) *)

\* sum(d.values()) over the keys given
RECURSIVE SumValues(_, _)
SumValues(d, keys) ==
    IF keys = {} THEN 0
    ELSE LET k == CHOOSE x \in keys : TRUE
         IN  d[k] + SumValues(d, keys \ {k})

\* the calls counted under one of the three outcomes
OutcomesCounted(st) == st.cooldown_blocks + st.no_trigger_events + st.questions_triggered

\* C36: the calls processed are the cooldown blocks, the events without a trigger, the
\* questions and the calls that returned reason 'error': every process_interaction
\* adds one to the total and, unless it returns 'error', one to exactly the sum of
\* the three other counters; no other operation changes either; and
\* questions_triggered is the sum of the values of questions_by_category.
C36_StatisticsAccounting ==
    /\ [](stats.questions_triggered
            = SumValues(stats.questions_by_category, DOMAIN stats.questions_by_category))
    /\ [][/\ stats'.total_interactions_processed - stats.total_interactions_processed
              = (IF call'.op = "process_interaction" THEN 1 ELSE 0)
          /\ OutcomesCounted(stats') - OutcomesCounted(stats)
              = (IF call'.op = "process_interaction" /\ result'.reason # "error"
                 THEN 1 ELSE 0)]_vars

\* calls with each of the four outcomes were made
C36_Witness ==
    /\ stats.cooldown_blocks >= 1
    /\ stats.no_trigger_events >= 1
    /\ Cardinality(DOMAIN stats.questions_by_category) >= 1
    /\ stats.total_interactions_processed > OutcomesCounted(stats)

\* the call removed the sessions it names: one user's, or all
Removing(c) == c.op \in {"reset_user_session", "clear_all_sessions"}

\* C38: reset_user_session(u) and clear_all_sessions remove session state only:
\* afterwards get_user_session(u) reports no session, the statistics are as before,
\* and the next process_interaction for u starts a new session at step 1 from
\* lastQuestionStep -999 and an empty log, so that it is not blocked by the cooldown
\* of a question asked before the reset.
C38_ResetRemovesSessionOnly ==
    /\ [](Removing(call) => get_user_session(user_sessions, FaultUser) = NoneDict)
    /\ [][Removing(call') => stats' = stats]_vars
    /\ [][Removing(call) /\ call'.op = "process_interaction" /\ call'.user_id = FaultUser
          => LET session == get_user_session(user_sessions', FaultUser)
             IN  /\ session # NoneDict
                 /\ Len(session.history) = (IF call'.interaction = NoneDict THEN 0 ELSE 1)
                 /\ result'.reason # "cooldown"
                 /\ IF result'.should_ask
                    THEN /\ session.lastQuestionStep = 1
                         /\ Len(session.questionsAsked) = 1
                         /\ session.questionsAsked[1].step = 1
                    ELSE /\ session.lastQuestionStep = InitialLastQuestionStep
                         /\ session.questionsAsked = <<>>]_vars

\* a question at the first event, a reset, and a question at the next event, which is
\* the first of the new session: two calls, two questions
C38_Witness ==
    /\ call.op = "process_interaction"
    /\ result.should_ask
    /\ stats.total_interactions_processed = 2
    /\ stats.questions_triggered = 2
    /\ user_sessions[FaultUser].lastQuestionStep = 1

\* the call failed in a stage after the event was appended: feature extraction, rule
\* evaluation, selection or generation
FailedAfterAppend(c, r) ==
    /\ c.op = "process_interaction"
    /\ r.reason = "error"
    /\ c.user_id # UnhashableId
    /\ c.interaction # NoneDict

\* C39: when a stage fails after the event was appended, the 'error' result leaves
\* lastQuestionStep, the question log and the counters cooldown_blocks,
\* no_trigger_events and questions_triggered as they were; the event stays in the
\* history and total_interactions_processed is incremented, so the failed event is a
\* step for the cooldown checks that follow.
C39_FailureAfterAppend ==
    [][FailedAfterAppend(call', result') =>
          LET after == user_sessions'[call'.user_id]
          IN  /\ after.history = Append(SessionBefore.history, call'.interaction)
              /\ after.lastQuestionStep = SessionBefore.lastQuestionStep
              /\ after.questionsAsked = SessionBefore.questionsAsked
              /\ stats' = [stats EXCEPT !.total_interactions_processed = @ + 1]
              /\ StepsUntilOpen(after) = StepsUntilOpen(SessionBefore) - 1]_vars

\* a stage failed on the event at which the cooldown of an earlier question ended
C39_Witness ==
    /\ FailedAfterAppend(call, result)
    /\ user_sessions[call.user_id].questionsAsked # <<>>
    /\ StepsUntilOpen(user_sessions[call.user_id]) = 0
    /\ stats.questions_triggered = 1

====
